---- MODULE Spec2Model ----
(***************************************************************************)
(* gdd: a terminal front end that runs `go test -json`, streams the        *)
(* subprocess's stdout to the UI loop and reduces the event lines into a   *)
(* list of package results.                                                *)
(*                                                                         *)
(*   parser.Parse            src/tui/main_model.go:420-654                 *)
(*   runner.ExecuteTestsCmd  src/Makefile:166-301                          *)
(*   tui.MainModel.Update    src/tui/main_model.go:149-240                 *)
(*   tui.updateOn...         src/unnamed/part_001:247-366                  *)
(*                                                                         *)
(* A Go string is modelled as a sequence of tokens; a token is a literal   *)
(* piece of text (one character for names, a whole marker for the texts    *)
(* the parser searches for).  Concatenation, prefix and substring tests    *)
(* work on the token sequences.                                            *)
(***************************************************************************)
EXTENDS Integers, Sequences, FiniteSets, Bags, TLC

(***************************************************************************)
(* Bounds of the model.                                                    *)
(***************************************************************************)
\* number of lines given to one Parse call
MaxLines == 3
\* number of lines given to each of the two Parse calls that are compared
MaxTwinLines == 4

(***************************************************************************)
(* Strings.                                                                *)
(***************************************************************************)
Digit == <<"0", "1", "2", "3", "4", "5", "6", "7", "8", "9">>

\* fmt's %d of a non-negative int
RECURSIVE Itoa(_)
Itoa(n) == IF n < 10 THEN <<Digit[n + 1]>>
           ELSE Itoa(n \div 10) \o <<Digit[(n % 10) + 1]>>

HasPrefix(s, prefix) ==
    /\ Len(prefix) <= Len(s)
    /\ SubSeq(s, 1, Len(prefix)) = prefix

Contains(s, substr) ==
    \E i \in 1..(Len(s) + 1) :
        /\ i + Len(substr) - 1 <= Len(s)
        /\ SubSeq(s, i, i + Len(substr) - 1) = substr

TrimPrefix(s, prefix) ==
    IF HasPrefix(s, prefix) THEN SubSeq(s, Len(prefix) + 1, Len(s)) ELSE s

\* strings.TrimRight(s, "\n")
RECURSIVE TrimRightNewline(_)
TrimRightNewline(s) ==
    IF s # <<>> /\ s[Len(s)] = "\n" THEN TrimRightNewline(SubSeq(s, 1, Len(s) - 1))
    ELSE s

IsSpace(c) == c \in {" ", "\n", "\t", "\r"}

RECURSIVE TrimLeftSpace(_)
TrimLeftSpace(s) ==
    IF s # <<>> /\ IsSpace(s[1]) THEN TrimLeftSpace(Tail(s)) ELSE s

RECURSIVE TrimRightSpace(_)
TrimRightSpace(s) ==
    IF s # <<>> /\ IsSpace(s[Len(s)]) THEN TrimRightSpace(SubSeq(s, 1, Len(s) - 1))
    ELSE s

TrimSpace(s) == TrimRightSpace(TrimLeftSpace(s))

\* byte values of the characters that occur in test names; the token that
\* starts the name of a placeholder test is ordered by its first byte, 'P'
CharCode == [c \in {"/", "a", "b", "c", "Package "} |->
                CASE c = "/" -> 47
                  [] c = "Package " -> 80
                  [] c = "a" -> 97
                  [] c = "b" -> 98
                  [] c = "c" -> 99]

\* the < of Go strings: bytewise lexicographic
RECURSIVE StringLess(_, _)
StringLess(a, b) ==
    IF b = <<>> THEN FALSE
    ELSE IF a = <<>> THEN TRUE
    ELSE IF a[1] = b[1] THEN StringLess(Tail(a), Tail(b))
    ELSE CharCode[a[1]] < CharCode[b[1]]

(***************************************************************************)
(* Sequences and maps.                                                     *)
(***************************************************************************)
\* all orders in which a range over a map (or a sort of equal keys) can
\* visit the elements of S
RECURSIVE Orders(_)
Orders(S) ==
    IF S = {} THEN {<<>>}
    ELSE UNION {{<<x>> \o o : o \in Orders(S \ {x})} : x \in S}

\* SelectKeys, had the range taken the records of every package
SelectKeysOfAll(ord, m, pkg) == ord

\* main_model.go:558-559: the keys, in the order visited, of the records of
\* the package
RECURSIVE SelectKeys(_, _, _)
SelectKeys(ord, m, pkg) ==
    IF ord = <<>> THEN <<>>
    ELSE IF m[ord[1]].PackageName = pkg
         THEN <<ord[1]>> \o SelectKeys(Tail(ord), m, pkg)
         ELSE SelectKeys(Tail(ord), m, pkg)

Remove(m, keys) == [k \in (DOMAIN m) \ keys |-> m[k]]

Range(s) == {s[i] : i \in DOMAIN s}

(***************************************************************************)
(* parser: types.                                                          *)
(***************************************************************************)
StatusRunning == "RUNNING"
StatusPass    == "PASS"
StatusFail    == "FAIL"
StatusSkip    == "SKIP"
StatusUnknown == "UNKNOWN"

\* time.Duration(1 * float64(time.Second)), counted in milliseconds
Second == 1000

orphanedOutputPackage == <<"_orphaned_output_">>

TestEvent(action, package, test, elapsed, output) ==
    [Action |-> action, Package |-> package, Test |-> test,
     Elapsed |-> elapsed, Output |-> output]

TestResult(package, name, status, output, duration) ==
    [PackageName |-> package, Name |-> name, Status |-> status,
     Output |-> output, Duration |-> duration]

PackageResult(package, status, summary, tests, duration) ==
    [PackageName |-> package, Status |-> status, SummaryOutput |-> summary,
     Tests |-> tests, Duration |-> duration]

\* strings.ToUpper of the three terminal actions
ToUpper(action) ==
    CASE action = "pass" -> StatusPass
      [] action = "fail" -> StatusFail
      [] action = "skip" -> StatusSkip

containsString(slice, str) == \E i \in DOMAIN slice : slice[i] = str

(***************************************************************************)
(* A line of the stream.  kind "json" is a line that json.Unmarshal        *)
(* decodes into the TestEvent of its fields; kind "text" is any other      *)
(* line, text being its content (empty for a blank line); kind "toolong"   *)
(* is a line longer than bufio.MaxScanTokenSize.                           *)
(***************************************************************************)
JSONLine(action, package, test, elapsed, output) ==
    [kind |-> "json", text |-> <<>>,
     event |-> TestEvent(action, package, test, elapsed, output)]

TextLine(text) ==
    [kind |-> "text", text |-> text, event |-> TestEvent("", <<>>, <<>>, 0, <<>>)]

TooLongLine ==
    [kind |-> "toolong", text |-> <<>>, event |-> TestEvent("", <<>>, <<>>, 0, <<>>)]

\* json.Unmarshal(lineBytes, &event)
Unmarshal(line) ==
    IF line.kind = "json" THEN [err |-> FALSE, event |-> line.event]
    ELSE [err |-> TRUE, event |-> TestEvent("", <<>>, <<>>, 0, <<>>)]

(***************************************************************************)
(* parser.Parse: the state of one call.                                    *)
(***************************************************************************)
ParseStart ==
    [packageResults      |-> <<>>,
     orderedPackageNames |-> <<>>,
     currentTestResults  |-> <<>>,
     lineNumber          |-> 0,
     scanErr             |-> FALSE]

MalformedText(lineNumber, text) ==
    <<"[Malformed JSON line ">> \o Itoa(lineNumber) \o <<"]: ">> \o text

\* OnMalformed, had it counted the line as a failure of the package
OnMalformedFailsPackage(s, text) ==
    IF Len(s.orderedPackageNames) > 0
    THEN LET lastPkgName == s.orderedPackageNames[Len(s.orderedPackageNames)]
         IN  [s EXCEPT !.packageResults[lastPkgName].SummaryOutput =
                            Append(@, MalformedText(s.lineNumber, text)),
                       !.packageResults[lastPkgName].Status = StatusFail]
    ELSE s

\* main_model.go:438-448
OnMalformed(s, text) ==
    IF Len(s.orderedPackageNames) > 0
    THEN LET lastPkgName == s.orderedPackageNames[Len(s.orderedPackageNames)]
         IN  IF lastPkgName \in DOMAIN s.packageResults
             THEN [s EXCEPT !.packageResults[lastPkgName].SummaryOutput =
                                Append(@, MalformedText(s.lineNumber, text))]
             ELSE s
    ELSE s

\* main_model.go:450-472, the event as rewritten for orphaned output
EventPackage(s, event) ==
    IF /\ event.Package \notin DOMAIN s.packageResults
       /\ event.Package = <<>> /\ event.Test = <<>> /\ event.Action = "output"
    THEN [event EXCEPT !.Package = orphanedOutputPackage]
    ELSE event

\* main_model.go:458-461
IsSkipped(s, event) ==
    /\ event.Package \notin DOMAIN s.packageResults
    /\ ~(event.Package = <<>> /\ event.Test = <<>> /\ event.Action = "output")
    /\ event.Package = <<>>

\* main_model.go:451-472; event is the original event
EnsurePackage(s, event) ==
    IF event.Package \in DOMAIN s.packageResults THEN s
    ELSE LET name == EventPackage(s, event).Package
         IN  [s EXCEPT
                !.packageResults =
                    (name :> PackageResult(name, StatusUnknown, <<>>, <<>>, 0)) @@ @,
                !.orderedPackageNames =
                    IF containsString(@, name) THEN @ ELSE Append(@, name)]

\* main_model.go:474-477
TestKey(event) ==
    IF event.Test # <<>> THEN event.Package \o <<"/">> \o event.Test ELSE <<>>

\* OnRun, had a run event left a record that is in flight as it is
OnRunKeepsRecord(s, event) ==
    IF event.Test # <<>>
    THEN IF TestKey(event) \in DOMAIN s.currentTestResults THEN s
         ELSE [s EXCEPT !.currentTestResults =
                (TestKey(event) :>
                    TestResult(event.Package, event.Test, StatusRunning, <<>>, 0)) @@ @]
    ELSE [s EXCEPT !.packageResults[event.Package].Status = StatusRunning]

\* main_model.go:480-492
OnRun(s, event) ==
    IF event.Test # <<>>
    THEN [s EXCEPT !.currentTestResults =
            (TestKey(event) :>
                TestResult(event.Package, event.Test, StatusRunning, <<>>, 0)) @@ @]
    ELSE [s EXCEPT !.packageResults[event.Package].Status = StatusRunning]

\* main_model.go:504-510: index of the completed test the output goes to
FoundTest(tests, name) ==
    IF \E i \in DOMAIN tests : tests[i].Name = name
    THEN CHOOSE i \in DOMAIN tests :
            /\ tests[i].Name = name
            /\ \A j \in DOMAIN tests : tests[j].Name = name => i <= j
    ELSE 0

\* main_model.go:494-518
OnOutput(s, event) ==
    LET outputLine == TrimRightNewline(event.Output)
        pkg        == event.Package
        testKey    == TestKey(event)
        found      == FoundTest(s.packageResults[pkg].Tests, event.Test)
    IN  IF event.Test # <<>>
        THEN IF testKey \in DOMAIN s.currentTestResults
             THEN [s EXCEPT !.currentTestResults[testKey].Output = Append(@, outputLine)]
             ELSE IF found # 0
                  THEN [s EXCEPT !.packageResults[pkg].Tests[found].Output =
                                    Append(@, outputLine)]
                  ELSE [s EXCEPT !.packageResults[pkg].SummaryOutput =
                                    Append(@, <<"[">> \o event.Test \o <<"]", " ">>
                                                \o outputLine)]
        ELSE [s EXCEPT !.packageResults[pkg].SummaryOutput = Append(@, outputLine)]

\* main_model.go:522
DurationOf(elapsed) == elapsed * Second

TestTag(name) == <<"[">> \o name \o <<"]">>

\* main_model.go:536-543, the lines moved to the test
RECURSIVE TaggedLines(_, _)
TaggedLines(summary, name) ==
    IF summary = <<>> THEN <<>>
    ELSE IF HasPrefix(summary[1], TestTag(name))
         THEN <<TrimSpace(TrimPrefix(summary[1], TestTag(name)))>>
                \o TaggedLines(Tail(summary), name)
         ELSE TaggedLines(Tail(summary), name)

\* main_model.go:536-544, the lines left in the summary
RECURSIVE UntaggedLines(_, _)
UntaggedLines(summary, name) ==
    IF summary = <<>> THEN <<>>
    ELSE IF HasPrefix(summary[1], TestTag(name))
         THEN UntaggedLines(Tail(summary), name)
         ELSE <<summary[1]>> \o UntaggedLines(Tail(summary), name)

\* main_model.go:524-551
OnTestResult(s, event) ==
    LET status   == ToUpper(event.Action)
        duration == DurationOf(event.Elapsed)
        pkg      == event.Package
        testKey  == TestKey(event)
        ok       == testKey \in DOMAIN s.currentTestResults
        summary  == s.packageResults[pkg].SummaryOutput
        tr       == IF ok THEN s.currentTestResults[testKey]
                    ELSE TestResult(pkg, event.Test, "",
                                    TaggedLines(summary, event.Test), 0)
        done     == [tr EXCEPT !.Status = status, !.Duration = duration]
    IN  [s EXCEPT
            !.packageResults[pkg].SummaryOutput =
                IF ok THEN @ ELSE UntaggedLines(@, event.Test),
            !.packageResults[pkg].Tests = Append(@, done),
            !.currentTestResults = Remove(@, {testKey})]

DidNotReport == <<"Test did not report completion before package finished.">>

DidNotComplete ==
    <<"Test did not complete (process might have crashed, timed out, or was terminated).">>

\* main_model.go:558-570: the records the range visits, in the order visited
RECURSIVE SweptTests(_, _)
SweptTests(keys, m) ==
    IF keys = <<>> THEN <<>>
    ELSE <<[m[keys[1]] EXCEPT !.Status = StatusFail,
                              !.Output = Append(@, DidNotReport)]>>
            \o SweptTests(Tail(keys), m)

\* main_model.go:577
IsNoTestFilesLine(line) ==
    \/ Contains(line, <<"[no test files]">>)
    \/ Contains(line, <<"no Go files">>)
    \/ Contains(line, <<"no non-test Go files">>)

\* main_model.go:581
IsBuildFailedLine(line) ==
    \/ HasPrefix(line, <<"# ">>)
    \/ /\ Contains(line, <<"FAIL\t">>)
       /\ Contains(line, <<"[build failed]">>)

\* IsNoTestFiles, had a build-failure line anywhere in the summary won
IsNoTestFilesUnlessBuildFailed(summary) ==
    /\ \E i \in DOMAIN summary : IsNoTestFilesLine(summary[i])
    /\ \A i \in DOMAIN summary : ~IsBuildFailedLine(summary[i])

\* main_model.go:574-584: the loop breaks at the first no-test-files line
IsNoTestFiles(summary) == \E i \in DOMAIN summary : IsNoTestFilesLine(summary[i])

IsBuildFailed(summary) ==
    \E i \in DOMAIN summary :
        /\ IsBuildFailedLine(summary[i])
        /\ \A j \in 1..i : ~IsNoTestFilesLine(summary[j])

\* Placeholder, had the build-failure branch left the summary in the package
PlaceholderKeepsSummary(pkg, status) ==
    IF /\ status \in {StatusFail, StatusSkip, StatusPass}
       /\ Len(pkg.Tests) = 0
       /\ Len(pkg.SummaryOutput) > 0
    THEN IF IsNoTestFiles(pkg.SummaryOutput)
         THEN [pkg EXCEPT
                !.Tests = Append(@, TestResult(pkg.PackageName,
                            <<"Package ">> \o pkg.PackageName \o <<" Status">>,
                            StatusSkip, pkg.SummaryOutput, pkg.Duration)),
                !.SummaryOutput = <<>>]
         ELSE IF IsBuildFailed(pkg.SummaryOutput) /\ status = StatusFail
         THEN [pkg EXCEPT
                !.Tests = Append(@, TestResult(pkg.PackageName,
                            <<"Package ">> \o pkg.PackageName \o <<" Build Failed">>,
                            StatusFail, pkg.SummaryOutput, pkg.Duration))]
         ELSE pkg
    ELSE pkg

\* Placeholder, had it not asked for a package without tests
PlaceholderWithTests(pkg, status) ==
    IF Len(pkg.SummaryOutput) > 0 /\ IsNoTestFiles(pkg.SummaryOutput)
    THEN [pkg EXCEPT
            !.Tests = Append(@, TestResult(pkg.PackageName,
                        <<"Package ">> \o pkg.PackageName \o <<" Status">>,
                        StatusSkip, pkg.SummaryOutput, pkg.Duration)),
            !.SummaryOutput = <<>>]
    ELSE IF Len(pkg.SummaryOutput) > 0 /\ IsBuildFailed(pkg.SummaryOutput)
            /\ status = StatusFail
    THEN [pkg EXCEPT
            !.Tests = Append(@, TestResult(pkg.PackageName,
                        <<"Package ">> \o pkg.PackageName \o <<" Build Failed">>,
                        StatusFail, pkg.SummaryOutput, pkg.Duration)),
            !.SummaryOutput = <<>>]
    ELSE pkg

\* main_model.go:572-607
Placeholder(pkg, status) ==
    IF /\ status \in {StatusFail, StatusSkip, StatusPass}
       /\ Len(pkg.Tests) = 0
       /\ Len(pkg.SummaryOutput) > 0
    THEN IF IsNoTestFiles(pkg.SummaryOutput)
         THEN [pkg EXCEPT
                !.Tests = Append(@, TestResult(pkg.PackageName,
                            <<"Package ">> \o pkg.PackageName \o <<" Status">>,
                            StatusSkip, pkg.SummaryOutput, pkg.Duration)),
                !.SummaryOutput = <<>>]
         ELSE IF IsBuildFailed(pkg.SummaryOutput) /\ status = StatusFail
         THEN [pkg EXCEPT
                !.Tests = Append(@, TestResult(pkg.PackageName,
                            <<"Package ">> \o pkg.PackageName \o <<" Build Failed">>,
                            StatusFail, pkg.SummaryOutput, pkg.Duration)),
                !.SummaryOutput = <<>>]
         ELSE pkg
    ELSE pkg

\* main_model.go:552-608; ord is the order in which the range at line 558
\* visits the keys of currentTestResults
OnPackageResult(s, event, ord) ==
    LET status   == ToUpper(event.Action)
        duration == DurationOf(event.Elapsed)
        name     == event.Package
        keys     == SelectKeys(ord, s.currentTestResults, name)
        swept    == SweptTests(keys, s.currentTestResults)
        pkg0     == s.packageResults[name]
        pkg1     == [pkg0 EXCEPT
                        !.Status   = IF status = StatusPass /\ keys # <<>>
                                     THEN StatusFail ELSE status,
                        !.Duration = duration,
                        !.Tests    = @ \o swept]
    IN  [s EXCEPT
            !.packageResults[name] = Placeholder(pkg1, status),
            !.currentTestResults   = Remove(@, Range(keys))]

\* OnEvent, had an action of no case been taken as a run
OnEventDefaultRuns(s, event, ord) ==
    CASE event.Action = "output" -> OnOutput(s, event)
      [] event.Action \in {"pass", "fail", "skip"} ->
            IF event.Test # <<>> THEN OnTestResult(s, event)
            ELSE OnPackageResult(s, event, ord)
      [] OTHER -> OnRun(s, event)

\* main_model.go:479-612, the switch
OnEvent(s, event, ord) ==
    CASE event.Action = "run"    -> OnRun(s, event)
      [] event.Action = "output" -> OnOutput(s, event)
      [] event.Action \in {"pass", "fail", "skip"} ->
            IF event.Test # <<>> THEN OnTestResult(s, event)
            ELSE OnPackageResult(s, event, ord)
      [] OTHER -> s

\* main_model.go:430-613, one iteration of the scanner loop
ProcessLine(s, line, ord) ==
    IF s.scanErr THEN s
    ELSE IF line.kind = "toolong" THEN [s EXCEPT !.scanErr = TRUE]
    ELSE LET s1 == [s EXCEPT !.lineNumber = @ + 1]
             u  == Unmarshal(line)
         IN  IF line.kind = "text" /\ line.text = <<>> THEN s1
             ELSE IF u.err THEN OnMalformed(s1, line.text)
             ELSE IF IsSkipped(s1, u.event) THEN s1
             ELSE OnEvent(EnsurePackage(s1, u.event), EventPackage(s1, u.event), ord)

\* SweepAtEnd, had it left the status of the package as it was
RECURSIVE SweepAtEndKeepsStatus(_, _, _)
SweepAtEndKeepsStatus(packages, m, ord) ==
    IF ord = <<>> THEN packages
    ELSE LET tr   == m[ord[1]]
             done == [tr EXCEPT !.Status = StatusFail,
                                !.Output = Append(@, DidNotComplete)]
             next ==
                IF tr.Status = StatusRunning /\ tr.PackageName \in DOMAIN packages
                THEN [packages EXCEPT ![tr.PackageName].Tests = Append(@, done)]
                ELSE packages
         IN  SweepAtEndKeepsStatus(next, m, Tail(ord))

\* main_model.go:619-639; ord is the order in which the range visits the map
RECURSIVE SweepAtEnd(_, _, _)
SweepAtEnd(packages, m, ord) ==
    IF ord = <<>> THEN packages
    ELSE LET tr   == m[ord[1]]
             done == [tr EXCEPT !.Status = StatusFail,
                                !.Output = Append(@, DidNotComplete)]
             next ==
                IF tr.Status = StatusRunning /\ tr.PackageName \in DOMAIN packages
                THEN [packages EXCEPT
                        ![tr.PackageName].Tests  = Append(@, done),
                        ![tr.PackageName].Status = StatusFail]
                ELSE packages
         IN  SweepAtEnd(next, m, Tail(ord))

\* main_model.go:646-648: sort.Slice orders by Name and is not guaranteed to
\* be stable, so records of equal name come out in an order that depends on
\* the order they went in; Sorted is the set of the slices it can return
IsSortedByName(tests) ==
    \A i \in 1..(Len(tests) - 1) : ~StringLess(tests[i + 1].Name, tests[i].Name)

Sorted(tests) ==
    {q \in {[i \in DOMAIN tests |-> tests[o[i]]] : o \in Orders(DOMAIN tests)} :
        IsSortedByName(q)}

\* the slice a stable sort returns
RECURSIVE InsertByName(_, _)
InsertByName(sorted, t) ==
    IF sorted = <<>> THEN <<t>>
    ELSE IF StringLess(t.Name, sorted[1].Name) THEN <<t>> \o sorted
    ELSE <<sorted[1]>> \o InsertByName(Tail(sorted), t)

RECURSIVE StableSorted(_)
StableSorted(tests) ==
    IF tests = <<>> THEN <<>>
    ELSE InsertByName(StableSorted(SubSeq(tests, 1, Len(tests) - 1)), tests[Len(tests)])

\* Assemble, had it left the tests of a package as they were appended
AssembleUnsorted(packages, names, pick) ==
    [i \in DOMAIN names |-> packages[names[i]]]

\* main_model.go:641-653; pick[name] is the slice the sort leaves in the package
Assemble(packages, names, pick) ==
    [i \in DOMAIN names |-> [packages[names[i]] EXCEPT !.Tests = pick[names[i]]]]

SortPicks(packages) ==
    {pick \in [DOMAIN packages -> UNION {Sorted(packages[n].Tests) : n \in DOMAIN packages}] :
        \A n \in DOMAIN packages : pick[n] \in Sorted(packages[n].Tests)}

\* main_model.go:615-653: what Parse returns once the scanner has stopped
\* (nil and the error after a scanner error); unsorted is the list as it
\* stands before the sort at line 646
ParseReturns(s) ==
    IF s.scanErr THEN {[err |-> TRUE, results |-> <<>>, unsorted |-> <<>>]}
    ELSE UNION {
            LET packages == SweepAtEnd(s.packageResults, s.currentTestResults, ord)
            IN  {[err |-> FALSE,
                  results  |-> Assemble(packages, s.orderedPackageNames, pick),
                  unsorted |-> [i \in DOMAIN s.orderedPackageNames |->
                                    packages[s.orderedPackageNames[i]]]] :
                    pick \in SortPicks(packages)} :
            ord \in Orders(DOMAIN s.currentTestResults)}

(***************************************************************************)
(* The lines the model gives to Parse.                                     *)
(***************************************************************************)
PkgA   == <<"a">>
PkgAB  == <<"a", "/", "b">>
TestC  == <<"c">>
TestBC == <<"b", "/", "c">>

OutOk          == <<"ok", "\n">>
OutNoTestFiles == <<"?", "[no test files]", "\n">>
OutBuildFailed == <<"# ", "a", "\n">>

\* (package, test) of the events; an empty test is a package-scoped event
Targets ==
    {<<PkgA, <<>>>>, <<PkgA, TestC>>, <<PkgA, TestBC>>, <<PkgAB, TestC>>}

RunLines == {JSONLine("run", t[1], t[2], 0, <<>>) : t \in Targets}

OutputLines ==
    {JSONLine("output", PkgA, <<>>, 0, o) : o \in {OutOk, OutNoTestFiles, OutBuildFailed}}
    \cup {JSONLine("output", t[1], t[2], 0, OutOk) : t \in Targets}
    \cup {JSONLine("output", <<>>, <<>>, 0, OutOk)}

ResultLines ==
    {JSONLine(a, t[1], t[2], 1, <<>>) : a \in {"pass", "fail"}, t \in Targets}
    \cup {JSONLine("skip", t[1], t[2], 1, <<>>) : t \in {<<PkgA, <<>>>>, <<PkgA, TestC>>}}
    \cup {JSONLine("pass", PkgA, TestC, -1, <<>>)}

OtherLines ==
    {JSONLine("cont", PkgAB, TestC, 0, <<>>), JSONLine("run", <<>>, TestC, 0, <<>>)}

MalformedLines == {TextLine(<<"FAIL\t", "a", " ", "[build failed]">>),
                   TextLine(<<"x", " ", "[no test files]">>)}

BlankLine == TextLine(<<>>)

EventLines == RunLines \cup OutputLines \cup ResultLines \cup OtherLines

Lines == EventLines \cup MalformedLines \cup {BlankLine, TooLongLine}

(***************************************************************************)
(* State.                                                                  *)
(***************************************************************************)
VARIABLES
    input,          \* the lines Parse has read so far
    parse,          \* the locals of the Parse call
    parsePc,        \* "scan", "returned" or "failed"
    finalResults,   \* the slice Parse returned
    parse2,         \* the locals of a second Parse call
    finalResults2,  \* the slice the second call returned
    inserted,       \* the line given to the second call only, <<>> if none
    runs,           \* the runs started by ExecuteTestsCmd, one record each
    model,          \* the fields of tui.MainModel
    mailbox,        \* the messages on their way to MainModel.Update
    keys            \* the number of keys pressed so far

parserVars == <<input, parse, parsePc, finalResults>>
twinVars   == <<parse2, finalResults2, inserted>>
runVars    == <<runs>>
tuiVars    == <<model, mailbox, keys>>

vars == <<input, parse, parsePc, finalResults, parse2, finalResults2, inserted,
          runs, model, mailbox, keys>>

(***************************************************************************)
(* Parse, line by line.                                                    *)
(***************************************************************************)
ParserInit ==
    /\ input = <<>>
    /\ parse = ParseStart
    /\ parsePc = "scan"
    /\ finalResults = <<>>

TwinIdle ==
    /\ parse2 = ParseStart
    /\ finalResults2 = [err |-> FALSE, results |-> <<>>]
    /\ inserted = <<>>

RunIdle == runs = <<>>

\* a nil *runner.TestRunConfig
NilConfig == [nil |-> TRUE]

\* main_model.go:106-136: the MainModel as NewMainModel returns it; items are
\* the items of the list, testOutputChan is the number of the run whose
\* channel it holds (0 for nil), report is what the report view was given
\* and quit is set once Update has returned tea.Quit
NewMainModel ==
    [state                 |-> "stateInitializing",
     quit                  |-> FALSE,
     items                 |-> <<>>,
     currentTestRunConfig  |-> NilConfig,
     accumulatedJSONOutput |-> <<>>,
     testOutputChan        |-> 0,
     report                |-> <<>>]

TuiIdle ==
    /\ model = NewMainModel
    /\ mailbox = EmptyBag
    /\ keys = 0

Init ==
    /\ ParserInit
    /\ TwinIdle
    /\ RunIdle
    /\ TuiIdle

Scan(line, ord) ==
    /\ parsePc = "scan"
    /\ Len(input) < MaxLines
    /\ input' = Append(input, line)
    /\ parse' = ProcessLine(parse, line, ord)
    /\ UNCHANGED <<parsePc, finalResults, twinVars, runVars, tuiVars>>

IsTestScoped(line) == line.event.Test # <<>>

Accepted(line) == line.kind = "json" /\ ~IsSkipped(parse, line.event)

\* main_model.go:433-435
ScanBlank ==
    \E line \in {BlankLine} : Scan(line, <<>>)

\* main_model.go:438-448
ScanMalformed == \E line \in MalformedLines : Scan(line, <<>>)

\* main_model.go:458-461
ScanSkipped ==
    \E line \in EventLines : IsSkipped(parse, line.event) /\ Scan(line, <<>>)

\* main_model.go:480-492
ScanRun ==
    \E line \in EventLines :
        Accepted(line) /\ line.event.Action = "run" /\ Scan(line, <<>>)

\* main_model.go:494-518
ScanOutput ==
    \E line \in EventLines :
        Accepted(line) /\ line.event.Action = "output" /\ Scan(line, <<>>)

\* main_model.go:524-551
ScanTestResult ==
    \E line \in EventLines :
        /\ Accepted(line) /\ line.event.Action \in {"pass", "fail", "skip"}
        /\ IsTestScoped(line)
        /\ Scan(line, <<>>)

\* main_model.go:552-608
ScanPackageResult ==
    \E line \in EventLines :
        /\ Accepted(line) /\ line.event.Action \in {"pass", "fail", "skip"}
        /\ ~IsTestScoped(line)
        /\ \E ord \in Orders(DOMAIN parse.currentTestResults) : Scan(line, ord)

\* main_model.go:609-612
ScanUnhandled ==
    \E line \in EventLines :
        /\ Accepted(line)
        /\ line.event.Action \notin {"run", "output", "pass", "fail", "skip"}
        /\ Scan(line, <<>>)

\* main_model.go:430, 615-617: the scanner stops at a line it cannot hold
ScanFails ==
    /\ parsePc = "scan"
    /\ Len(input) < MaxLines
    /\ input' = Append(input, TooLongLine)
    /\ parse' = ProcessLine(parse, TooLongLine, <<>>)
    /\ parsePc' = "failed"
    /\ UNCHANGED <<finalResults, twinVars, runVars, tuiVars>>

\* main_model.go:619-653
EndOfInput ==
    /\ parsePc = "scan"
    /\ \E r \in ParseReturns(parse) :
        /\ finalResults' = r.results
        /\ parsePc' = "returned"
    /\ UNCHANGED <<input, parse, twinVars, runVars, tuiVars>>

Next ==
    \/ ScanBlank
    \/ ScanMalformed
    \/ ScanSkipped
    \/ ScanRun
    \/ ScanOutput
    \/ ScanTestResult
    \/ ScanPackageResult
    \/ ScanUnhandled
    \/ ScanFails
    \/ EndOfInput

Spec == Init /\ [][Next]_vars

(***************************************************************************)
(* Two Parse calls side by side.  Both read the lines of input; the second *)
(* may read one more line, which does not decode, at any one position.     *)
(* The two calls range over their maps and sort independently of each      *)
(* other; the sort gives equal slices for equal slices.                    *)
(***************************************************************************)
TwinLines ==
    {JSONLine("run", PkgA, TestC, 0, <<>>),
     JSONLine("run", PkgA, TestBC, 0, <<>>),
     JSONLine("run", PkgAB, TestC, 0, <<>>),
     JSONLine("pass", PkgA, TestC, 1, <<>>),
     JSONLine("pass", PkgA, <<>>, 1, <<>>),
     JSONLine("fail", PkgA, <<>>, 1, <<>>)}

InsertedLines == MalformedLines \cup {TextLine(<<"x">>), TooLongLine}

TwinScan ==
    \E line \in TwinLines :
        /\ parsePc = "scan"
        /\ Len(input) < MaxTwinLines
        /\ input' = Append(input, line)
        /\ \E ord \in Orders(DOMAIN parse.currentTestResults) :
                parse' = ProcessLine(parse, line, ord)
        /\ \E ord \in Orders(DOMAIN parse2.currentTestResults) :
                parse2' = ProcessLine(parse2, line, ord)
        /\ UNCHANGED <<parsePc, finalResults, finalResults2, inserted, runVars, tuiVars>>

TwinInsert ==
    \E line \in InsertedLines :
        /\ parsePc = "scan"
        /\ inserted = <<>>
        /\ inserted' = <<line>>
        /\ parse2' = ProcessLine(parse2, line, <<>>)
        /\ UNCHANGED <<parserVars, finalResults2, runVars, tuiVars>>

TwinEnd ==
    /\ parsePc = "scan"
    /\ \E r1 \in ParseReturns(parse), r2 \in ParseReturns(parse2) :
        /\ \A i \in DOMAIN r1.results, j \in DOMAIN r2.results :
                r1.unsorted[i].Tests = r2.unsorted[j].Tests
                    => r1.results[i].Tests = r2.results[j].Tests
        /\ finalResults' = r1.results
        /\ finalResults2' = [err |-> r2.err, results |-> r2.results]
        /\ parsePc' = "returned"
    /\ UNCHANGED <<input, parse, parse2, inserted, runVars, tuiVars>>

TwinNext == TwinScan \/ TwinInsert \/ TwinEnd

SpecTwin == Init /\ [][TwinNext]_vars

(***************************************************************************)
(* runner: messages and run configurations.                                *)
(***************************************************************************)
SingleTest   == 0
PackageTests == 1
AllTests     == 2

TestRunConfig(type, packagePath, testName) ==
    [Type |-> type, PackagePath |-> packagePath, TestName |-> testName]

\* a nil error is the empty text; every error of the program has a text
NilErr == <<>>

TestOutputLineMsg(line) == [type |-> "TestOutputLineMsg", Line |-> line]

TestRunCompleteMsg(err) == [type |-> "TestRunCompleteMsg", Err |-> err]

StreamMsg(stream) == [type |-> "StreamMsg", Stream |-> stream]

ErrSingleTest ==
    <<"ExecuteTestsCmd: SingleTest requires a valid PackagePath and TestName">>

ErrPackageTests == <<"ExecuteTestsCmd: PackageTests requires a valid PackagePath">>

ErrUnknownType(type) ==
    <<"ExecuteTestsCmd: unknown test target type: ">> \o Itoa(type)

\* ConfigError, had SingleTest asked for a PackagePath only
ConfigErrorWithoutTestName(config) ==
    CASE config.Type = SingleTest ->
            IF config.PackagePath = <<>> THEN ErrSingleTest ELSE NilErr
      [] config.Type = PackageTests ->
            IF config.PackagePath = <<>> THEN ErrPackageTests ELSE NilErr
      [] config.Type = AllTests -> NilErr
      [] OTHER -> ErrUnknownType(config.Type)

\* Makefile:182-211: the error of the switch, NilErr if it builds arguments
ConfigError(config) ==
    CASE config.Type = SingleTest ->
            IF config.PackagePath = <<>> \/ config.TestName = <<>>
            THEN ErrSingleTest ELSE NilErr
      [] config.Type = PackageTests ->
            IF config.PackagePath = <<>> THEN ErrPackageTests ELSE NilErr
      [] config.Type = AllTests -> NilErr
      [] OTHER -> ErrUnknownType(config.Type)

\* Makefile:180-205
FinalArgs(config) ==
    LET baseArgs == <<"test", "-json", "-v", "-count=1">>
    IN  CASE config.Type = SingleTest ->
                baseArgs \o <<config.PackagePath, "-run",
                              <<"^">> \o config.TestName \o <<"$">> >>
          [] config.Type = PackageTests -> Append(baseArgs, config.PackagePath)
          [] OTHER -> Append(baseArgs, "./...")

\* the capacity of msgChan
ChanCap == 1

\* most lines the subprocess writes to stdout and to stderr in one run, and
\* the number of lines an OS pipe holds before the writer blocks
MaxStdout == 2
MaxStderr == 1
PipeCap == 1

ErrStdoutPipe == <<"stdout pipe: ", "e">>
ErrStderrPipe == <<"stderr pipe: ", "e">>
ErrStart      == <<"start command 'go ", "args", "': ", "e">>
ErrExit       == <<"exit status 1">>

\* the lines `go test` writes to stdout
StdoutLines ==
    {BlankLine,
     TextLine(<<"FAIL\t", "a", " ", "[build failed]">>),
     JSONLine("run", PkgA, TestC, 0, <<>>),
     JSONLine("pass", PkgA, <<>>, 1, <<>>),
     JSONLine("run", <<>>, TestC, 0, <<>>),
     TooLongLine}

StderrLine == <<"e">>

(***************************************************************************)
(* runner.ExecuteTestsCmd: one run.                                        *)
(*   wpc       where the worker goroutine stands                           *)
(*   proc      "none", "running" or "exited": the subprocess               *)
(*   waiting   the WaitForStreamMsgCmd goroutines blocked on msgChan       *)
(*   written, sent   what the subprocess wrote to stdout and what the      *)
(*             worker sent on msgChan, from the start of the run           *)
(***************************************************************************)
NewRun(config) ==
    [config       |-> config,
     wpc          |-> "config",
     args         |-> <<>>,
     line         |-> BlankLine,
     msgChan      |-> <<>>,
     closed       |-> FALSE,
     proc         |-> "none",
     exitErr      |-> NilErr,
     waitErr      |-> NilErr,
     stdoutPipe   |-> <<>>,
     stderrPipe   |-> <<>>,
     written      |-> <<>>,
     errWritten   |-> 0,
     stderrPc     |-> "none",
     stderrDone   |-> FALSE,
     stderrOutput |-> <<>>,
     sent         |-> <<>>,
     waiting      |-> 0]

\* msgChan <- TestRunCompleteMsg{Err: err}; return, with the deferred close
\* of Makefile:171
CompleteAndClose(run, err) ==
    [run EXCEPT !.msgChan = Append(@, TestRunCompleteMsg(err)),
                !.sent    = Append(@, TestRunCompleteMsg(err)),
                !.closed  = TRUE,
                !.wpc     = "done"]

\* HasRoom, had the channel no limit
HasRoomUnbounded(run) == Len(run.msgChan) >= 0

\* Makefile:168: a send goes through when the buffer of msgChan has room
HasRoom(run) == Len(run.msgChan) < ChanCap

\* main.go:78-85: the goroutines of the program run until main returns,
\* which it does once Update has returned tea.Quit
Alive == ~model.quit

Others == <<parserVars, twinVars, tuiVars>>

\* Makefile:173-213
WorkerConfig ==
    \E r \in DOMAIN runs :
        /\ Alive
        /\ runs[r].wpc = "config"
        /\ runs' = [runs EXCEPT ![r] =
                        IF ConfigError(runs[r].config) # NilErr
                        THEN CompleteAndClose(runs[r], ConfigError(runs[r].config))
                        ELSE [runs[r] EXCEPT !.args = FinalArgs(runs[r].config),
                                             !.wpc  = "stdoutPipe"]]
        /\ UNCHANGED Others

\* Makefile:224-229
WorkerStdoutPipe ==
    \E r \in DOMAIN runs :
        /\ Alive
        /\ runs[r].wpc = "stdoutPipe"
        /\ \E ok \in BOOLEAN :
            runs' = [runs EXCEPT ![r] =
                        IF ok THEN [runs[r] EXCEPT !.wpc = "stderrPipe"]
                        ELSE CompleteAndClose(runs[r], ErrStdoutPipe)]
        /\ UNCHANGED Others

\* Makefile:231-236
WorkerStderrPipe ==
    \E r \in DOMAIN runs :
        /\ Alive
        /\ runs[r].wpc = "stderrPipe"
        /\ \E ok \in BOOLEAN :
            runs' = [runs EXCEPT ![r] =
                        IF ok THEN [runs[r] EXCEPT !.wpc = "start"]
                        ELSE CompleteAndClose(runs[r], ErrStderrPipe)]
        /\ UNCHANGED Others

\* Makefile:238-260: cmd.Start and, once the subprocess runs, the stderr
\* goroutine
WorkerStart ==
    \E r \in DOMAIN runs :
        /\ Alive
        /\ runs[r].wpc = "start"
        /\ \E ok \in BOOLEAN :
            runs' = [runs EXCEPT ![r] =
                        IF ok THEN [runs[r] EXCEPT !.proc = "running", !.stderrPc = "scan",
                                             !.wpc = "scan"]
                        ELSE CompleteAndClose(runs[r], ErrStart)]
        /\ UNCHANGED Others

\* the subprocess writes a line to stdout
ProcessWritesStdout ==
    \E r \in DOMAIN runs :
        /\ runs[r].proc = "running"
        /\ Len(runs[r].written) < MaxStdout
        /\ Len(runs[r].stdoutPipe) < PipeCap
        /\ \E line \in StdoutLines :
            runs' = [runs EXCEPT ![r].stdoutPipe = Append(@, line),
                                 ![r].written    = Append(@, line)]
        /\ UNCHANGED Others

\* the subprocess writes a line to stderr
ProcessWritesStderr ==
    \E r \in DOMAIN runs :
        /\ runs[r].proc = "running"
        /\ runs[r].errWritten < MaxStderr
        /\ Len(runs[r].stderrPipe) < PipeCap
        /\ runs' = [runs EXCEPT ![r].stderrPipe = Append(@, StderrLine),
                                ![r].errWritten = @ + 1]
        /\ UNCHANGED Others

\* the subprocess exits, with status zero or not
ProcessExits ==
    \E r \in DOMAIN runs :
        /\ runs[r].proc = "running"
        /\ \E err \in {NilErr, ErrExit} :
            runs' = [runs EXCEPT ![r].proc = "exited", ![r].exitErr = err]
        /\ UNCHANGED Others

\* StderrScan, had the reader of stderr sent its line on the channel too
StderrScanSends ==
    \E r \in DOMAIN runs :
        /\ Alive
        /\ runs[r].stderrPc = "scan"
        /\ runs[r].stderrPipe # <<>>
        /\ HasRoom(runs[r])
        /\ ~runs[r].closed
        /\ runs' = [runs EXCEPT
                ![r].stderrOutput = Append(@, Head(runs[r].stderrPipe)),
                ![r].stderrPipe   = Tail(@),
                ![r].msgChan      =
                    Append(@, TestOutputLineMsg(TextLine(Head(runs[r].stderrPipe)))),
                ![r].sent         =
                    Append(@, TestOutputLineMsg(TextLine(Head(runs[r].stderrPipe))))]
        /\ UNCHANGED Others

\* Makefile:252-256
StderrScan ==
    \E r \in DOMAIN runs :
        /\ Alive
        /\ runs[r].stderrPc = "scan"
        /\ runs[r].stderrPipe # <<>>
        /\ runs' = [runs EXCEPT ![r].stderrOutput = Append(@, Head(runs[r].stderrPipe)),
                                ![r].stderrPipe   = Tail(@)]
        /\ UNCHANGED Others

\* Makefile:250, 252, 257-260: end of stderr
StderrEnd ==
    \E r \in DOMAIN runs :
        /\ Alive
        /\ runs[r].stderrPc = "scan"
        /\ runs[r].stderrPipe = <<>>
        /\ runs[r].proc = "exited"
        /\ runs' = [runs EXCEPT ![r].stderrPc = "done", ![r].stderrDone = TRUE]
        /\ UNCHANGED Others

\* Makefile:264: stdoutScanner.Scan() returns a line
WorkerScan ==
    \E r \in DOMAIN runs :
        /\ Alive
        /\ runs[r].wpc = "scan"
        /\ runs[r].stdoutPipe # <<>>
        /\ Head(runs[r].stdoutPipe) # TooLongLine
        /\ runs' = [runs EXCEPT ![r].line       = Head(runs[r].stdoutPipe),
                                ![r].stdoutPipe = Tail(@),
                                ![r].wpc        = "send"]
        /\ UNCHANGED Others

\* Makefile:264, 269-273: stdoutScanner.Scan() returns false, at the end of
\* stdout or at a line it cannot hold
WorkerScanEnds ==
    \E r \in DOMAIN runs :
        /\ Alive
        /\ runs[r].wpc = "scan"
        /\ \/ runs[r].stdoutPipe = <<>> /\ runs[r].proc = "exited"
           \/ runs[r].stdoutPipe # <<>> /\ Head(runs[r].stdoutPipe) = TooLongLine
        /\ runs' = [runs EXCEPT ![r].wpc = "waitStderr"]
        /\ UNCHANGED Others

\* Makefile:265
WorkerSend ==
    \E r \in DOMAIN runs :
        /\ Alive
        /\ runs[r].wpc = "send"
        /\ HasRoom(runs[r])
        /\ runs' = [runs EXCEPT ![r].msgChan = Append(@, TestOutputLineMsg(runs[r].line)),
                                ![r].sent    = Append(@, TestOutputLineMsg(runs[r].line)),
                                ![r].wpc     = "scan"]
        /\ UNCHANGED Others

\* WorkerWaitStderr, had it not received from stderrDone
WorkerSkipsStderrDone ==
    \E r \in DOMAIN runs :
        /\ Alive
        /\ runs[r].wpc = "waitStderr"
        /\ runs' = [runs EXCEPT ![r].wpc = "wait"]
        /\ UNCHANGED Others

\* Makefile:276
WorkerWaitStderr ==
    \E r \in DOMAIN runs :
        /\ Alive
        /\ runs[r].wpc = "waitStderr"
        /\ runs[r].stderrDone
        /\ runs' = [runs EXCEPT ![r].wpc = "wait"]
        /\ UNCHANGED Others

\* Makefile:279
WorkerWait ==
    \E r \in DOMAIN runs :
        /\ Alive
        /\ runs[r].wpc = "wait"
        /\ runs[r].proc = "exited"
        /\ runs' = [runs EXCEPT ![r].waitErr = runs[r].exitErr, ![r].wpc = "complete"]
        /\ UNCHANGED Others

\* Makefile:295, 171
WorkerComplete ==
    \E r \in DOMAIN runs :
        /\ Alive
        /\ runs[r].wpc = "complete"
        /\ HasRoom(runs[r])
        /\ runs' = [runs EXCEPT ![r] = CompleteAndClose(runs[r], runs[r].waitErr)]
        /\ UNCHANGED Others

(***************************************************************************)
(* ExecuteTestsCmd under any configuration, with a consumer that takes a   *)
(* message from the channel whenever it likes.                             *)
(***************************************************************************)
Paths == {<<>>, <<"./", "a">>}
Names == {<<>>, <<"TestX">>}

Configs ==
    {TestRunConfig(t, p, n) : t \in {SingleTest, PackageTests, AllTests, 3},
                              p \in Paths, n \in Names}

ExecInit ==
    /\ ParserInit
    /\ TwinIdle
    /\ \E config \in Configs : runs = <<NewRun(config)>>
    /\ TuiIdle

\* a receive on the channel, as in Makefile:310
ConsumerReceives ==
    \E r \in DOMAIN runs :
        /\ runs[r].msgChan # <<>>
        /\ runs' = [runs EXCEPT ![r].msgChan = Tail(@)]
        /\ UNCHANGED Others

ExecNext ==
    \/ WorkerConfig
    \/ WorkerStdoutPipe
    \/ WorkerStderrPipe
    \/ WorkerStart
    \/ ProcessWritesStdout
    \/ ProcessWritesStderr
    \/ ProcessExits
    \/ StderrScan
    \/ StderrEnd
    \/ WorkerScan
    \/ WorkerScanEnds
    \/ WorkerSend
    \/ WorkerWaitStderr
    \/ WorkerWait
    \/ WorkerComplete
    \/ ConsumerReceives

SpecExec == ExecInit /\ [][ExecNext]_vars

(***************************************************************************)
(* ExecuteTestsCmd with a subprocess that has MaxStdout lines to write to  *)
(* stdout and exits when it has written them, and a consumer that goes on  *)
(* receiving.                                                              *)
(***************************************************************************)
\* the subprocess exits, with status zero or not, its output written; a
\* write to a full pipe blocks it (Makefile:224, 263-266)
ProcessFinishes ==
    \E r \in DOMAIN runs :
        /\ runs[r].proc = "running"
        /\ Len(runs[r].written) = MaxStdout
        /\ \E err \in {NilErr, ErrExit} :
            runs' = [runs EXCEPT ![r].proc = "exited", ![r].exitErr = err]
        /\ UNCHANGED Others

ExecLiveNext ==
    \/ WorkerConfig
    \/ WorkerStdoutPipe
    \/ WorkerStderrPipe
    \/ WorkerStart
    \/ ProcessWritesStdout
    \/ ProcessWritesStderr
    \/ ProcessFinishes
    \/ StderrScan
    \/ StderrEnd
    \/ WorkerScan
    \/ WorkerScanEnds
    \/ WorkerSend
    \/ WorkerWaitStderr
    \/ WorkerWait
    \/ WorkerComplete
    \/ ConsumerReceives

\* no goroutine, nor the subprocess, nor the consumer stops while it can
\* take a step
SpecExecLive == ExecInit /\ [][ExecLiveNext]_vars /\ WF_vars(ExecLiveNext)

(***************************************************************************)
(* tui: the messages of the program and the commands that produce them.    *)
(***************************************************************************)
\* number of keys pressed in one session
MaxKeys == 1

testsFoundMsg(items) == [type |-> "testsFoundMsg", items |-> items]

testsLoadFailedMsg == [type |-> "testsLoadFailedMsg"]

triggerRunAllTestsMsg == [type |-> "triggerRunAllTestsMsg"]

triggerRunPackageTestsMsg == [type |-> "triggerRunPackageTestsMsg"]

triggerRunSelectedTestMsg == [type |-> "triggerRunSelectedTestMsg"]

displayReportMsg(parsedResults, runConfig) ==
    [type |-> "displayReportMsg", parsedResults |-> parsedResults,
     runConfig |-> runConfig]

TestItem == [Name |-> <<"TestX">>, PackageName |-> <<"a">>, PackageDir |-> <<"a">>]

\* the messages waiting to be given to Update, which is not called again
\* after tea.Quit
Pending(type) ==
    IF model.quit THEN {} ELSE {m \in BagToSet(mailbox) : m.type = type}

Post(box, msg) == box (+) SetToBag({msg})

Take(box, msg) == box (-) SetToBag({msg})

\* main_model.go:420-654 on a whole buffer: the Parse states the lines lead
\* to, over the orders in which the maps are ranged
RECURSIVE ParseStates(_, _)
ParseStates(s, lines) ==
    IF lines = <<>> THEN {s}
    ELSE UNION {ParseStates(ProcessLine(s, Head(lines), ord), Tail(lines)) :
                    ord \in Orders(DOMAIN s.currentTestResults)}

Parse(lines) == UNION {ParseReturns(s) : s \in ParseStates(ParseStart, lines)}

\* part_001:312-328
ExecutionErrorReport(err) ==
    << PackageResult(<<"Test Execution Error">>, StatusFail,
            << <<"Execution failed to produce JSON output.">>,
               <<"Error from 'go test': ">> \o err,
               <<"Check GDD log for 'go test stderr' details.">> >>,
            << TestResult(<<"Test Execution Error">>, <<"Overall Execution">>,
                          StatusFail,
                          << <<"Command 'go test' failed: ">> \o err >>, 0) >>,
            0) >>

\* part_001:334-345
ParsingErrorReport ==
    << PackageResult(<<"JSON Parsing Error">>, StatusFail,
            << <<"Failed to parse 'go test -json' output.">>,
               <<"Error: ", "error reading test output stream: ", "bufio.Scanner: token too long">>,
               <<"Raw output (first 1KB):">>,
               <<"raw">> >>,
            <<>>, 0) >>

\* ParsedData, had updateOnTestsComplete given every buffer to Parse
ParsedDataAlwaysParsed(buffer, err) ==
    {IF r.err THEN ParsingErrorReport ELSE r.results : r \in Parse(buffer)}

\* part_001:310-347: the lists parsedData can be
ParsedData(buffer, err) ==
    IF buffer = <<>> /\ err # NilErr
    THEN {ExecutionErrorReport(err)}
    ELSE {IF r.err THEN ParsingErrorReport ELSE r.results : r \in Parse(buffer)}

(***************************************************************************)
(* tui: MainModel.Update, one action per message type, with the commands   *)
(* it returns run to the message they produce.                             *)
(***************************************************************************)
\* main_model.go:179-189
UpdateTestsFound ==
    \E msg \in Pending("testsFoundMsg") :
        /\ model' = [model EXCEPT !.state = "stateTestList", !.items = msg.items]
        /\ mailbox' = Take(mailbox, msg)
        /\ UNCHANGED <<parserVars, twinVars, runVars, keys>>

\* main_model.go:190-196
UpdateTestsLoadFailed ==
    \E msg \in Pending("testsLoadFailedMsg") :
        /\ model' = [model EXCEPT !.state = "stateError"]
        /\ mailbox' = Take(mailbox, msg)
        /\ UNCHANGED <<parserVars, twinVars, runVars, keys>>

\* part_001:76-101: the message of the command ListModel.Update returns for
\* a key, none if the key starts nothing
TriggerOf(key, items) ==
    CASE key = "enter" /\ items # <<>> -> {triggerRunSelectedTestMsg}
      [] key = "p" /\ items # <<>>     -> {triggerRunPackageTestsMsg}
      [] key = "a"                     -> {triggerRunAllTestsMsg}
      [] OTHER                         -> {}

\* main_model.go:159-173, 321-337, part_001:64-101: one of the keys that start
\* a run, pressed while the list is shown; in the other states routeByState
\* gives the key to no list and nothing changes
UpdateKeyMsg ==
    \E key \in {"enter", "p", "a"} :
        /\ keys < MaxKeys
        /\ ~model.quit
        /\ model.state = "stateTestList"
        /\ keys' = keys + 1
        /\ mailbox' = mailbox (+) SetToBag(TriggerOf(key, model.items))
        /\ UNCHANGED <<parserVars, twinVars, runVars, model>>

\* main_model.go:159-173: ctrl+c in any state, q while the list is shown and
\* any key in the error state end the program
UpdateQuitKey ==
    \E key \in {"ctrl+c", "q"} :
        /\ ~model.quit
        /\ \/ key = "ctrl+c"
           \/ model.state \in {"stateTestList", "stateError"}
        /\ model' = [model EXCEPT !.quit = TRUE]
        /\ UNCHANGED <<parserVars, twinVars, runVars, mailbox, keys>>

\* part_001:256-291: the configuration of the run, or none when no item is
\* selected
RunCfgOf(msg, items) ==
    CASE msg.type = "triggerRunAllTestsMsg" ->
            {TestRunConfig(AllTests, <<>>, <<>>)}
      [] msg.type = "triggerRunPackageTestsMsg" /\ items # <<>> ->
            {TestRunConfig(PackageTests, <<"./">> \o items[1].PackageDir, <<>>)}
      [] msg.type = "triggerRunSelectedTestMsg" /\ items # <<>> ->
            {TestRunConfig(SingleTest, <<"./">> \o items[1].PackageDir, items[1].Name)}
      [] OTHER -> {}

\* part_001:260, 274, 289
CurrentConfigOf(runCfg) ==
    IF runCfg.Type = AllTests
    THEN TestRunConfig(AllTests, <<"./...">>, <<>>)
    ELSE runCfg

\* UpdateTriggerRun, had updateOnRunTests not looked at the state
UpdateTriggerRunWhileRunning ==
    \E msg \in Pending("triggerRunAllTestsMsg") \cup Pending("triggerRunPackageTestsMsg")
                \cup Pending("triggerRunSelectedTestMsg") :
        /\ IF RunCfgOf(msg, model.items) = {}
           THEN /\ mailbox' = Take(mailbox, msg)
                /\ UNCHANGED <<model, runs>>
           ELSE \E runCfg \in RunCfgOf(msg, model.items) :
                /\ model' = [model EXCEPT
                                !.currentTestRunConfig  = CurrentConfigOf(runCfg),
                                !.state                 = "stateRunningTests",
                                !.accumulatedJSONOutput = <<>>,
                                !.testOutputChan        = 0]
                /\ runs' = Append(runs, NewRun(runCfg))
                /\ mailbox' = Post(Take(mailbox, msg), StreamMsg(Len(runs) + 1))
        /\ UNCHANGED <<parserVars, twinVars, keys>>

\* main_model.go:197-204, part_001:247-301, Makefile:166-171, 299
UpdateTriggerRun ==
    \E msg \in Pending("triggerRunAllTestsMsg") \cup Pending("triggerRunPackageTestsMsg")
                \cup Pending("triggerRunSelectedTestMsg") :
        /\ IF model.state = "stateRunningTests" \/ RunCfgOf(msg, model.items) = {}
           THEN /\ mailbox' = Take(mailbox, msg)
                /\ UNCHANGED <<model, runs>>
           ELSE \E runCfg \in RunCfgOf(msg, model.items) :
                /\ model' = [model EXCEPT
                                !.currentTestRunConfig  = CurrentConfigOf(runCfg),
                                !.state                 = "stateRunningTests",
                                !.accumulatedJSONOutput = <<>>,
                                !.testOutputChan        = 0]
                /\ runs' = Append(runs, NewRun(runCfg))
                /\ mailbox' = Post(Take(mailbox, msg), StreamMsg(Len(runs) + 1))
        /\ UNCHANGED <<parserVars, twinVars, keys>>

\* main_model.go:205-209, Makefile:308-310
UpdateStreamMsg ==
    \E msg \in Pending("StreamMsg") :
        /\ model' = [model EXCEPT !.testOutputChan = msg.Stream]
        /\ runs' = [runs EXCEPT ![msg.Stream].waiting = @ + 1]
        /\ mailbox' = Take(mailbox, msg)
        /\ UNCHANGED <<parserVars, twinVars, keys>>

\* UpdateTestOutputLineMsg, had it returned two WaitForStreamMsgCmd
UpdateTestOutputLineMsgTwice ==
    \E msg \in Pending("TestOutputLineMsg") :
        /\ model' = [model EXCEPT !.accumulatedJSONOutput = Append(@, msg.Line)]
        /\ runs' = IF model.testOutputChan # 0
                   THEN [runs EXCEPT ![model.testOutputChan].waiting = @ + 2]
                   ELSE runs
        /\ mailbox' = Take(mailbox, msg)
        /\ UNCHANGED <<parserVars, twinVars, keys>>

\* main_model.go:210-215
UpdateTestOutputLineMsg ==
    \E msg \in Pending("TestOutputLineMsg") :
        /\ model' = [model EXCEPT !.accumulatedJSONOutput = Append(@, msg.Line)]
        /\ runs' = IF model.testOutputChan # 0
                   THEN [runs EXCEPT ![model.testOutputChan].waiting = @ + 1]
                   ELSE runs
        /\ mailbox' = Take(mailbox, msg)
        /\ UNCHANGED <<parserVars, twinVars, keys>>

\* main_model.go:216-217, part_001:303-366
UpdateTestRunCompleteMsg ==
    \E msg \in Pending("TestRunCompleteMsg") :
        \E parsedData \in ParsedData(model.accumulatedJSONOutput, msg.Err) :
            LET config == IF model.currentTestRunConfig = NilConfig
                          THEN TestRunConfig(AllTests, <<"./...">>, <<>>)
                          ELSE model.currentTestRunConfig
            IN  /\ model' = [model EXCEPT !.testOutputChan = 0,
                                          !.currentTestRunConfig = config]
                /\ mailbox' = Post(Take(mailbox, msg),
                                   displayReportMsg(parsedData, config))
                /\ UNCHANGED <<parserVars, twinVars, runVars, keys>>

\* main_model.go:218-225
UpdateDisplayReportMsg ==
    \E msg \in Pending("displayReportMsg") :
        /\ model' = [model EXCEPT !.state = "stateReportView",
                                  !.report = msg.parsedResults]
        /\ mailbox' = Take(mailbox, msg)
        /\ UNCHANGED <<parserVars, twinVars, runVars, keys>>

\* Makefile:308-315: a WaitForStreamMsgCmd receives from its channel; at a
\* closed and empty channel it returns nil, which is no message
WaitForStreamMsg ==
    \E r \in DOMAIN runs :
        /\ Alive
        /\ runs[r].waiting > 0
        /\ \/ /\ runs[r].msgChan # <<>>
              /\ runs' = [runs EXCEPT ![r].msgChan = Tail(@), ![r].waiting = @ - 1]
              /\ mailbox' = Post(mailbox, Head(runs[r].msgChan))
           \/ /\ runs[r].msgChan = <<>>
              /\ runs[r].closed
              /\ runs' = [runs EXCEPT ![r].waiting = @ - 1]
              /\ UNCHANGED mailbox
        /\ UNCHANGED <<parserVars, twinVars, model, keys>>

\* main_model.go:140-146, part_001:224-245: the program starts with test
\* discovery under way
TuiInit ==
    /\ ParserInit
    /\ TwinIdle
    /\ RunIdle
    /\ model = NewMainModel
    /\ keys = 0
    /\ \E msg \in {testsFoundMsg(<<>>), testsFoundMsg(<<TestItem>>), testsLoadFailedMsg} :
            mailbox = SetToBag({msg})

TuiNext ==
    \/ UpdateTestsFound
    \/ UpdateTestsLoadFailed
    \/ UpdateKeyMsg
    \/ UpdateQuitKey
    \/ UpdateTriggerRun
    \/ UpdateStreamMsg
    \/ UpdateTestOutputLineMsg
    \/ UpdateTestRunCompleteMsg
    \/ UpdateDisplayReportMsg
    \/ WaitForStreamMsg
    \/ WorkerConfig
    \/ WorkerStdoutPipe
    \/ WorkerStderrPipe
    \/ WorkerStart
    \/ ProcessWritesStdout
    \/ ProcessWritesStderr
    \/ ProcessExits
    \/ StderrScan
    \/ StderrEnd
    \/ WorkerScan
    \/ WorkerScanEnds
    \/ WorkerSend
    \/ WorkerWaitStderr
    \/ WorkerWait
    \/ WorkerComplete

SpecTui == TuiInit /\ [][TuiNext]_vars

(***************************************************************************)
(* tui: one run alone, from the return of updateOnRunTests to the report.  *)
(***************************************************************************)
\* part_001:247-301, Makefile:166-171, 299: the state updateOnRunTests leaves
\* for a trigger with an item selected: the model is running tests, the
\* worker is started and the StreamMsg of the run is on its way to Update
RunInit ==
    /\ ParserInit
    /\ TwinIdle
    /\ keys = 0
    /\ \E msg \in {triggerRunAllTestsMsg, triggerRunPackageTestsMsg,
                    triggerRunSelectedTestMsg} :
         \E runCfg \in RunCfgOf(msg, <<TestItem>>) :
            /\ model = [NewMainModel EXCEPT
                            !.items                = <<TestItem>>,
                            !.currentTestRunConfig = CurrentConfigOf(runCfg),
                            !.state                = "stateRunningTests"]
            /\ runs = <<NewRun(runCfg)>>
            /\ mailbox = SetToBag({StreamMsg(1)})

RunNext ==
    \/ UpdateQuitKey
    \/ UpdateStreamMsg
    \/ UpdateTestOutputLineMsg
    \/ UpdateTestRunCompleteMsg
    \/ UpdateDisplayReportMsg
    \/ WaitForStreamMsg
    \/ WorkerConfig
    \/ WorkerStdoutPipe
    \/ WorkerStderrPipe
    \/ WorkerStart
    \/ ProcessWritesStdout
    \/ ProcessWritesStderr
    \/ ProcessExits
    \/ StderrScan
    \/ StderrEnd
    \/ WorkerScan
    \/ WorkerScanEnds
    \/ WorkerSend
    \/ WorkerWaitStderr
    \/ WorkerWait
    \/ WorkerComplete

SpecRun == RunInit /\ [][RunNext]_vars

\* the steps of the program and of the subprocess: every step of a run but
\* the key that ends the program
RunProgress ==
    \/ UpdateStreamMsg
    \/ UpdateTestOutputLineMsg
    \/ UpdateTestRunCompleteMsg
    \/ UpdateDisplayReportMsg
    \/ WaitForStreamMsg
    \/ WorkerConfig
    \/ WorkerStdoutPipe
    \/ WorkerStderrPipe
    \/ WorkerStart
    \/ ProcessWritesStdout
    \/ ProcessWritesStderr
    \/ ProcessExits
    \/ StderrScan
    \/ StderrEnd
    \/ WorkerScan
    \/ WorkerScanEnds
    \/ WorkerSend
    \/ WorkerWaitStderr
    \/ WorkerWait
    \/ WorkerComplete

\* a goroutine that can run does run, and the event loop gives Update every
\* message it has received: a run does not stop while a step of it is
\* possible; the user is free to press no key
SpecRunLive == RunInit /\ [][RunNext]_vars /\ WF_vars(RunProgress)

(***************************************************************************)
(* tui: a session of several runs, with the keys of the list and of the    *)
(* report view. The user runs all tests each time; the subprocess of a run *)
(* writes MaxSessionStdout lines at most to stdout and nothing to stderr.  *)
(***************************************************************************)
\* number of keys pressed in a session
MaxPresses == 4

\* lines a subprocess of the session writes to stdout
MaxSessionStdout == 1

SessionLine == JSONLine("run", PkgA, TestC, 0, <<>>)

backToListMsg == [type |-> "backToListMsg"]

\* main_model.go:159-173, 321-337, part_001:64-101: the key that runs all
\* tests, pressed while the list is shown
SessionRunKey ==
    \E key \in {"a"} :
        /\ keys < MaxPresses
        /\ ~model.quit
        /\ model.state = "stateTestList"
        /\ keys' = keys + 1
        /\ mailbox' = mailbox (+) SetToBag(TriggerOf(key, model.items))
        /\ UNCHANGED <<parserVars, twinVars, runVars, model>>

\* main_model.go:159-173, 339-347, part_000:106-111, report_keymap.go:15: esc,
\* q or b pressed while the report is shown
SessionBackKey ==
    \E key \in {"esc"} :
        /\ keys < MaxPresses
        /\ ~model.quit
        /\ model.state = "stateReportView"
        /\ keys' = keys + 1
        /\ mailbox' = Post(mailbox, backToListMsg)
        /\ UNCHANGED <<parserVars, twinVars, runVars, model>>

\* main_model.go:226-233, part_000:295-307
UpdateBackToListMsg ==
    \E msg \in Pending("backToListMsg") :
        /\ model' = [model EXCEPT !.state = "stateTestList", !.report = <<>>]
        /\ mailbox' = Take(mailbox, msg)
        /\ UNCHANGED <<parserVars, twinVars, runVars, keys>>

\* the subprocess writes a line to stdout
SessionProcessWritesStdout ==
    \E r \in DOMAIN runs :
        /\ runs[r].proc = "running"
        /\ Len(runs[r].written) < MaxSessionStdout
        /\ Len(runs[r].stdoutPipe) < PipeCap
        /\ runs' = [runs EXCEPT ![r].stdoutPipe = Append(@, SessionLine),
                                ![r].written    = Append(@, SessionLine)]
        /\ UNCHANGED Others

SessionNext ==
    \/ UpdateTestsFound
    \/ UpdateTestsLoadFailed
    \/ SessionRunKey
    \/ SessionBackKey
    \/ UpdateQuitKey
    \/ UpdateTriggerRun
    \/ UpdateStreamMsg
    \/ UpdateTestOutputLineMsg
    \/ UpdateTestRunCompleteMsg
    \/ UpdateDisplayReportMsg
    \/ UpdateBackToListMsg
    \/ WaitForStreamMsg
    \/ WorkerConfig
    \/ WorkerStdoutPipe
    \/ WorkerStderrPipe
    \/ WorkerStart
    \/ SessionProcessWritesStdout
    \/ ProcessExits
    \/ StderrEnd
    \/ WorkerScan
    \/ WorkerScanEnds
    \/ WorkerSend
    \/ WorkerWaitStderr
    \/ WorkerWait
    \/ WorkerComplete

SpecSession == TuiInit /\ [][SessionNext]_vars

\* the steps of the program and of the subprocesses: every step of a session
\* but the keys
SessionProgress ==
    \/ UpdateTestsFound
    \/ UpdateTestsLoadFailed
    \/ UpdateTriggerRun
    \/ UpdateStreamMsg
    \/ UpdateTestOutputLineMsg
    \/ UpdateTestRunCompleteMsg
    \/ UpdateDisplayReportMsg
    \/ UpdateBackToListMsg
    \/ WaitForStreamMsg
    \/ WorkerConfig
    \/ WorkerStdoutPipe
    \/ WorkerStderrPipe
    \/ WorkerStart
    \/ SessionProcessWritesStdout
    \/ ProcessExits
    \/ StderrEnd
    \/ WorkerScan
    \/ WorkerScanEnds
    \/ WorkerSend
    \/ WorkerWaitStderr
    \/ WorkerWait
    \/ WorkerComplete

\* a goroutine that can run does run, and the event loop gives Update every
\* message it has received; the user is free to press no key
SpecSessionLive == TuiInit /\ [][SessionNext]_vars /\ WF_vars(SessionProgress)

(***************************************************************************)
(* tui: ReportModel.SetContent, the counters and the overall status of a   *)
(* result list.                                                            *)
(***************************************************************************)
\* part_000:169-183, the body of the loop over the tests of a package
TestStep(m, test) ==
    LET counted == [m EXCEPT !.totalTests = @ + 1]
    IN  CASE test.Status = StatusPass -> [counted EXCEPT !.passedCount = @ + 1]
          [] test.Status = StatusFail ->
                [counted EXCEPT !.failedCount = @ + 1,
                                !.overallStatus = StatusFail]
          [] test.Status = StatusSkip -> [counted EXCEPT !.skippedCount = @ + 1]
          [] OTHER -> [counted EXCEPT !.skippedCount = @ + 1]

\* part_000:168-184
RECURSIVE TestsLoop(_, _)
TestsLoop(m, tests) ==
    IF tests = <<>> THEN m
    ELSE TestsLoop(TestStep(m, Head(tests)), Tail(tests))

\* PackageStep, had a skipped package been looked at whatever the status so
\* far
PackageStepSkipOverrides(m, pkgResult) ==
    LET counted == TestsLoop([m EXCEPT !.totalDuration = @ + pkgResult.Duration],
                             pkgResult.Tests)
    IN  IF pkgResult.Status = StatusSkip
        THEN [counted EXCEPT !.overallStatus = StatusSkip]
        ELSE IF pkgResult.Status = StatusFail
        THEN [counted EXCEPT !.overallStatus = StatusFail]
        ELSE counted

\* part_000:166-191, the body of the loop over the packages
PackageStep(m, pkgResult) ==
    LET counted == TestsLoop([m EXCEPT !.totalDuration = @ + pkgResult.Duration],
                             pkgResult.Tests)
    IN  IF pkgResult.Status = StatusFail /\ counted.overallStatus # StatusFail
        THEN [counted EXCEPT !.overallStatus = StatusFail]
        ELSE IF pkgResult.Status = StatusSkip /\ counted.overallStatus = StatusPass
        THEN [counted EXCEPT !.overallStatus = StatusSkip]
        ELSE counted

\* part_000:166-191
RECURSIVE PackagesLoop(_, _)
PackagesLoop(m, results) ==
    IF results = <<>> THEN m
    ELSE PackagesLoop(PackageStep(m, Head(results)), Tail(results))

\* part_000:132-192: the fields of the ReportModel after the call, and the
\* list as the call leaves it; the function reads the list and its records
\* and assigns to none
SetContent(results, runCfg) ==
    PackagesLoop([totalDuration |-> 0,
                  totalTests    |-> 0,
                  passedCount   |-> 0,
                  failedCount   |-> 0,
                  skippedCount  |-> 0,
                  overallStatus |-> IF Len(results) = 0 THEN StatusSkip
                                    ELSE StatusPass,
                  results       |-> results],
                 results)

(***************************************************************************)
(* tui: a report on its way to the report view. The lists are of           *)
(* MaxReportPackages packages at most, of any status, each with no test,   *)
(* one test of any status, or that test and a passed one.                  *)
(***************************************************************************)
MaxReportPackages == 2

ReportTests ==
    {TestResult(<<"p">>, <<"t">>, status, <<>>, 0) :
        status \in {StatusPass, StatusFail, StatusSkip, StatusRunning}}

ReportTestLists ==
    {<<>>} \cup {<<t>> : t \in ReportTests}
           \cup {<<t, TestResult(<<"p">>, <<"u">>, StatusPass, <<>>, 0)>> :
                    t \in ReportTests}

ReportPackages ==
    {PackageResult(<<"p">>, status, <<>>, tests, Second) :
        status \in {StatusPass, StatusFail, StatusSkip, StatusUnknown},
        tests \in ReportTestLists}

ReportLists ==
    UNION {[1..n -> ReportPackages] : n \in 0..MaxReportPackages}

\* part_001:360-365: updateOnTestsComplete has returned the command of a
\* displayReportMsg
ReportInit ==
    /\ ParserInit
    /\ TwinIdle
    /\ RunIdle
    /\ keys = 0
    /\ model = [NewMainModel EXCEPT
                    !.state = "stateRunningTests",
                    !.currentTestRunConfig = TestRunConfig(AllTests, <<"./...">>, <<>>)]
    /\ \E results \in ReportLists :
            mailbox = SetToBag({displayReportMsg(results,
                                    TestRunConfig(AllTests, <<"./...">>, <<>>))})

ReportNext ==
    \/ UpdateDisplayReportMsg
    \/ UpdateQuitKey

SpecReport == ReportInit /\ [][ReportNext]_vars

(***************************************************************************)
(* tui: two triggers on their way to Update. The list is shown and the     *)
(* user has pressed two of the keys that start a run; the selection of the *)
(* list (list.Model, not part of the program) may be gone by the time a    *)
(* trigger is handled, so every trigger may meet a list without selection. *)
(***************************************************************************)
Triggers ==
    {triggerRunAllTestsMsg, triggerRunPackageTestsMsg, triggerRunSelectedTestMsg}

TriggersInit ==
    /\ ParserInit
    /\ TwinIdle
    /\ RunIdle
    /\ keys = 0
    /\ \E items \in {<<>>, <<TestItem>>} :
            model = [NewMainModel EXCEPT !.state = "stateTestList", !.items = items]
    /\ \E first \in Triggers, second \in Triggers :
            mailbox = SetToBag({first}) (+) SetToBag({second})

TriggersNext ==
    \/ UpdateQuitKey
    \/ UpdateTriggerRun
    \/ UpdateStreamMsg
    \/ UpdateTestOutputLineMsg
    \/ UpdateTestRunCompleteMsg
    \/ UpdateDisplayReportMsg
    \/ WaitForStreamMsg
    \/ WorkerConfig
    \/ WorkerStdoutPipe
    \/ WorkerStderrPipe
    \/ WorkerStart
    \/ SessionProcessWritesStdout
    \/ ProcessExits
    \/ StderrEnd
    \/ WorkerScan
    \/ WorkerScanEnds
    \/ WorkerSend
    \/ WorkerWaitStderr
    \/ WorkerWait
    \/ WorkerComplete

SpecTriggers == TriggersInit /\ [][TriggersNext]_vars

(***************************************************************************)
(* Parse on the streams go test writes for tests that run to their end:    *)
(* per test one run event, then its output events, then one terminal       *)
(* event, and the terminal event of a package after those of its tests.    *)
(* Tests of one package, and packages, may interleave.                     *)
(***************************************************************************)
\* lines of such a stream
MaxWfLines == 6

WfTests == {<<PkgA, TestC>>, <<PkgA, TestBC>>, <<PkgAB, TestC>>}

WfOutputs == {OutOk, OutBuildFailed}

IsFor(line, t) ==
    line.kind = "json" /\ line.event.Package = t[1] /\ line.event.Test = t[2]

Ran(lines, t) ==
    \E i \in DOMAIN lines : IsFor(lines[i], t) /\ lines[i].event.Action = "run"

Ended(lines, t) ==
    \E i \in DOMAIN lines :
        IsFor(lines[i], t) /\ lines[i].event.Action \in {"pass", "fail", "skip"}

\* main_model.go:430-613, one iteration of the scanner loop
WfScan(line, ord) ==
    /\ parsePc = "scan"
    /\ Len(input) < MaxWfLines
    /\ input' = Append(input, line)
    /\ parse' = ProcessLine(parse, line, ord)
    /\ UNCHANGED <<parsePc, finalResults, twinVars, runVars, tuiVars>>

\* main_model.go:480-492
WfRun ==
    \E t \in WfTests :
        /\ ~Ran(input, t)
        /\ ~Ended(input, <<t[1], <<>>>>)
        /\ WfScan(JSONLine("run", t[1], t[2], 0, <<>>), <<>>)

\* main_model.go:494-518
WfOutput ==
    \E t \in WfTests, o \in WfOutputs :
        /\ Ran(input, t)
        /\ ~Ended(input, t)
        /\ WfScan(JSONLine("output", t[1], t[2], 0, o), <<>>)

\* main_model.go:524-551
WfTestResult ==
    \E t \in WfTests, a \in {"pass", "fail", "skip"} :
        /\ Ran(input, t)
        /\ ~Ended(input, t)
        /\ WfScan(JSONLine(a, t[1], t[2], 1, <<>>), <<>>)

\* main_model.go:552-608
WfPackageResult ==
    \E pkg \in {t[1] : t \in WfTests}, a \in {"pass", "fail"} :
        /\ ~Ended(input, <<pkg, <<>>>>)
        /\ \E t \in WfTests : t[1] = pkg /\ Ran(input, t)
        /\ \A t \in WfTests : t[1] = pkg /\ Ran(input, t) => Ended(input, t)
        /\ \E ord \in Orders(DOMAIN parse.currentTestResults) :
                WfScan(JSONLine(a, pkg, <<>>, 1, <<>>), ord)

\* main_model.go:619-653: the stream ends after the terminal event of every
\* package it started
WfEndOfInput ==
    /\ \A t \in WfTests : Ran(input, t) => Ended(input, <<t[1], <<>>>>)
    /\ EndOfInput

WfNext ==
    \/ WfRun
    \/ WfOutput
    \/ WfTestResult
    \/ WfPackageResult
    \/ WfEndOfInput

SpecWf == Init /\ [][WfNext]_vars

(***************************************************************************)
(* Properties of Parse.                                                    *)
(***************************************************************************)
Returned == parsePc = "returned"

IsEvent(line) == line.kind = "json"

IsTestEvent(line, actions) ==
    /\ IsEvent(line)
    /\ line.event.Action \in actions
    /\ line.event.Package # <<>>
    /\ line.event.Test # <<>>

IsPackageEvent(line, actions) ==
    /\ IsEvent(line)
    /\ line.event.Action \in actions
    /\ line.event.Package # <<>>
    /\ line.event.Test = <<>>

Terminal == {"pass", "fail", "skip"}

\* the packages of the result list that carry the name
ResultPackages(results, name) ==
    {i \in DOMAIN results : results[i].PackageName = name}

\* C1: when Parse has returned, every package for which the stream holds a
\* test-scoped fail event has status FAIL in the result list, wherever the
\* package's own terminal event stood in the stream.
C1_MonotonicPackageFailure ==
    Returned =>
        \A i \in DOMAIN input :
            IsTestEvent(input[i], {"fail"}) =>
                /\ ResultPackages(finalResults, input[i].event.Package) # {}
                /\ \A k \in ResultPackages(finalResults, input[i].event.Package) :
                        finalResults[k].Status = StatusFail

\* C2: every test record of the result list has status PASS, FAIL or SKIP
\* and a duration that is not negative.
C2_TerminalStatusAndDuration ==
    Returned =>
        \A k \in DOMAIN finalResults :
            \A j \in DOMAIN finalResults[k].Tests :
                /\ finalResults[k].Tests[j].Status \in {StatusPass, StatusFail, StatusSkip}
                /\ finalResults[k].Tests[j].Duration >= 0

\* the run event at position i is still in flight when the stream ends
InFlightAtEnd(i) ==
    /\ IsTestEvent(input[i], {"run"})
    /\ \A j \in (i + 1)..Len(input) :
        /\ ~(/\ IsTestEvent(input[j], Terminal)
             /\ input[j].event.Package = input[i].event.Package
             /\ input[j].event.Test = input[i].event.Test)
        /\ ~(/\ IsPackageEvent(input[j], Terminal)
             /\ input[j].event.Package = input[i].event.Package)

\* the records of a package that the end-of-stream sweep made for a test name
SweptAtEnd(pkg, name) ==
    {j \in DOMAIN pkg.Tests :
        /\ pkg.Tests[j].Name = name
        /\ pkg.Tests[j].Output # <<>>
        /\ pkg.Tests[j].Output[Len(pkg.Tests[j].Output)] = DidNotComplete}

\* C3: a test that is in flight when the stream ends has exactly one record
\* made by the end-of-stream sweep under its package, and its status is FAIL.
C3_Completeness ==
    Returned =>
        \A i \in DOMAIN input :
            InFlightAtEnd(i) =>
                \E k \in ResultPackages(finalResults, input[i].event.Package) :
                    /\ Cardinality(SweptAtEnd(finalResults[k], input[i].event.Test)) = 1
                    /\ \A j \in SweptAtEnd(finalResults[k], input[i].event.Test) :
                            finalResults[k].Tests[j].Status = StatusFail

(***************************************************************************)
(* Properties of two Parse calls.                                          *)
(***************************************************************************)
\* the number of records of a test list with a name and a status
CountOf(tests, name, status) ==
    Cardinality({j \in DOMAIN tests :
                    tests[j].Name = name /\ tests[j].Status = status})

SameRecords(tests1, tests2) ==
    \A t \in Range(tests1) \cup Range(tests2) :
        CountOf(tests1, t.Name, t.Status) = CountOf(tests2, t.Name, t.Status)

\* the records that Parse made from a package summary (main_model.go:587, 597)
IsPlaceholder(t) == HasPrefix(t.Name, <<"Package ">>)

RegularTests(tests) == SelectSeq(tests, LAMBDA t : ~IsPlaceholder(t))

C10_Determinism ==
    (Returned /\ inserted = <<>>) =>
        /\ ~finalResults2.err
        /\ finalResults2.results = finalResults

(***************************************************************************)
(* Properties of ExecuteTestsCmd.                                          *)
(***************************************************************************)
IsComplete(msg) == msg.type = "TestRunCompleteMsg"

IsLineMsg(msg) == msg.type = "TestOutputLineMsg"

HasComplete(sent) == \E i \in DOMAIN sent : IsComplete(sent[i])

LineMsgs(sent) == SelectSeq(sent, IsLineMsg)

\* C6: on the channel of a run the line messages are the lines of stdout,
\* one each and in the order written, a completion message is the last
\* message and there is one at most, by then every line of stdout has been
\* sent, and the channel is closed only after a completion message.
C6_ChannelProtocol ==
    \A r \in DOMAIN runs :
        LET sent  == runs[r].sent
            lines == LineMsgs(sent)
        IN  /\ \A i \in DOMAIN sent : IsComplete(sent[i]) => i = Len(sent)
            /\ Len(lines) <= Len(runs[r].written)
            /\ \A i \in DOMAIN lines : lines[i].Line = runs[r].written[i]
            /\ HasComplete(sent) => Len(lines) = Len(runs[r].written)
            /\ runs[r].closed => HasComplete(sent)

\* the configurations claim C7 calls wrong
IsWrongConfig(config) ==
    \/ config.Type = SingleTest /\ (config.PackagePath = <<>> \/ config.TestName = <<>>)
    \/ config.Type = PackageTests /\ config.PackagePath = <<>>
    \/ config.Type \notin {SingleTest, PackageTests, AllTests}

IsConfigurationError(err) ==
    \/ err \in {ErrSingleTest, ErrPackageTests}
    \/ HasPrefix(err, <<"ExecuteTestsCmd: unknown test target type: ">>)

\* C7: a run with a wrong configuration starts no subprocess and sends no
\* line message, and once the worker has looked at the configuration the
\* channel has carried one completion message with a configuration error
\* and nothing else; a run of type AllTests never sends a configuration
\* error and goes on to make the pipes, whatever its PackagePath.
C7_ConfigValidation ==
    \A r \in DOMAIN runs :
        LET run == runs[r]
        IN  /\ IsWrongConfig(run.config) =>
                /\ run.proc = "none"
                /\ LineMsgs(run.sent) = <<>>
                /\ run.wpc \in {"config", "done"}
                /\ run.wpc = "done" =>
                    /\ Len(run.sent) = 1
                    /\ IsComplete(run.sent[1])
                    /\ IsConfigurationError(run.sent[1].Err)
            /\ run.config.Type = AllTests =>
                \A i \in DOMAIN run.sent :
                    IsComplete(run.sent[i]) => ~IsConfigurationError(run.sent[i].Err)

\* a SingleTest run without a test name has been turned down
C7_Witness ==
    \E r \in DOMAIN runs :
        /\ runs[r].config.Type = SingleTest
        /\ runs[r].config.PackagePath # <<>>
        /\ runs[r].config.TestName = <<>>
        /\ runs[r].wpc = "done"
        /\ HasComplete(runs[r].sent)

ReportedRun == runs[Len(runs)]

RunError(run) == run.sent[Len(run.sent)].Err

\* C4: the list a displayReportMsg carries is never empty.
C4_ReportNeverEmpty ==
    \A msg \in Pending("displayReportMsg") : msg.parsedResults # <<>>

\* C5: when the run ended with an error and no line of its stdout decodes
\* as an event, the displayReportMsg carries one package, FAIL, with one
\* test, FAIL, whose output holds the text of the error.
C5_ErrorWithoutStructuredOutput ==
    \A msg \in Pending("displayReportMsg") :
        (/\ RunError(ReportedRun) # NilErr
         /\ \A i \in DOMAIN ReportedRun.written : ~IsEvent(ReportedRun.written[i])) =>
            /\ Len(msg.parsedResults) = 1
            /\ msg.parsedResults[1].Status = StatusFail
            /\ Len(msg.parsedResults[1].Tests) = 1
            /\ msg.parsedResults[1].Tests[1].Status = StatusFail
            /\ \E o \in Range(msg.parsedResults[1].Tests[1].Output) :
                    Contains(o, RunError(ReportedRun))

(***************************************************************************)
(* Properties of Parse: lines that do not decode, events without package.  *)
(***************************************************************************)
IsMalformed(line) == line.kind = "text" /\ line.text # <<>>

\* the events that name a package or go to the bucket of unassociated output
ReferencesPackage(line) ==
    /\ IsEvent(line)
    /\ \/ line.event.Package # <<>>
       \/ line.event.Test = <<>> /\ line.event.Action = "output"

ReferencedPackage(line) ==
    IF line.event.Package = <<>> THEN orphanedOutputPackage ELSE line.event.Package

\* the place in lines of the latest event that references a package, 0 if none
LatestReference(lines) ==
    IF \E j \in DOMAIN lines : ReferencesPackage(lines[j])
    THEN CHOOSE j \in DOMAIN lines :
            /\ ReferencesPackage(lines[j])
            /\ \A k \in DOMAIN lines : ReferencesPackage(lines[k]) => k <= j
    ELSE 0

\* the texts a package of the result list holds, in its summary and its tests
TextsOf(pkg) ==
    Range(pkg.SummaryOutput)
        \cup UNION {Range(pkg.Tests[n].Output) : n \in DOMAIN pkg.Tests}

\* C11: when Parse has returned, every line that did not decode and came
\* before any event that makes a package is held, as text, by the bucket of
\* unassociated output in the result list.
C11_MalformedBeforeAnyPackage ==
    Returned =>
        \A i \in DOMAIN input :
            (/\ IsMalformed(input[i])
             /\ \A j \in 1..(i - 1) : ~ReferencesPackage(input[j])) =>
                \E k \in ResultPackages(finalResults, orphanedOutputPackage) :
                    \E text \in TextsOf(finalResults[k]) :
                        Contains(text, input[i].text)

\* C12: the step that reads a line that does not decode, after an event
\* that references a package, appends one text holding the line to the
\* summary of the package the latest such event references, changes no
\* other package and no test, and leaves the scanner running.
C12_MalformedToLatestPackage ==
    [][(/\ inserted = <<>>
        /\ inserted' # <<>>
        /\ IsMalformed(inserted'[1])
        /\ LatestReference(input) # 0) =>
            LET target == ReferencedPackage(input[LatestReference(input)])
                old    == parse2.packageResults
                new    == parse2'.packageResults
            IN  /\ DOMAIN new = DOMAIN old
                /\ \A p \in DOMAIN old \ {target} : new[p] = old[p]
                /\ Len(new[target].SummaryOutput) = Len(old[target].SummaryOutput) + 1
                /\ SubSeq(new[target].SummaryOutput, 1, Len(old[target].SummaryOutput))
                        = old[target].SummaryOutput
                /\ Contains(new[target].SummaryOutput[Len(new[target].SummaryOutput)],
                            inserted'[1].text)
                /\ new[target].Tests = old[target].Tests
                /\ new[target].Status = old[target].Status
                /\ parse2'.currentTestResults = parse2.currentTestResults
                /\ ~parse2'.scanErr]_vars

\* C13: when Parse has returned, every event of the stream that has a test
\* name and no package, and that starts or ends the test, has left a record
\* of that test in the result list; such an event is applied, not dropped.
C13_NoEventDropped ==
    Returned =>
        \A i \in DOMAIN input :
            (/\ IsEvent(input[i])
             /\ input[i].event.Package = <<>>
             /\ input[i].event.Test # <<>>
             /\ input[i].event.Action \in {"run"} \cup Terminal) =>
                \E k \in DOMAIN finalResults :
                    \E n \in DOMAIN finalResults[k].Tests :
                        /\ finalResults[k].Tests[n].Name = input[i].event.Test
                        /\ finalResults[k].Tests[n].PackageName
                                \in {<<>>, orphanedOutputPackage}

\* C14: the program has not ended (tea.Quit after ctrl+c, which ends the
\* reading of every channel) while the subprocess of a run is still alive.
C14_NoAbandonedSubprocess ==
    \A r \in DOMAIN runs : ~(model.quit /\ runs[r].proc = "running")

\* C15: the channel of a run never holds more than one message the
\* consumer has not received, so the worker is at most one message ahead.
C15_Backpressure ==
    \A r \in DOMAIN runs : Len(runs[r].msgChan) <= 1

\* the worker holds the next line while the channel still holds a message
C15_Witness ==
    \E r \in DOMAIN runs :
        /\ runs[r].wpc = "send"
        /\ Len(runs[r].msgChan) = 1
        /\ IsLineMsg(runs[r].msgChan[1])

(***************************************************************************)
(* Properties of the consumer of one run.                                  *)
(***************************************************************************)
\* the messages of a run that were received from its channel and that
\* Update has not handled yet, the StreamMsg of the run among them
Unhandled ==
    BagCardinality([m \in {x \in BagToSet(mailbox) :
                              x.type \in {"StreamMsg", "TestOutputLineMsg",
                                          "TestRunCompleteMsg"}} |-> mailbox[m]])

LinesSent(run) ==
    [i \in DOMAIN LineMsgs(run.sent) |-> LineMsgs(run.sent)[i].Line]

IsPrefix(s, t) == Len(s) <= Len(t) /\ s = SubSeq(t, 1, Len(s))

\* the consumer has received the completion message of the run
CompleteReceived(run) == HasComplete(run.sent) /\ run.msgChan = <<>>

C17_IncrementalReduction ==
    (\E i \in DOMAIN model.accumulatedJSONOutput :
        ReferencesPackage(model.accumulatedJSONOutput[i]))
        => model.report # <<>>

(***************************************************************************)
(* Properties of Parse: the order of the result list.                      *)
(***************************************************************************)
\* the packages the events of lines reference, each once, in the order of
\* their first reference
RECURSIVE FirstReferenced(_)
FirstReferenced(lines) ==
    IF lines = <<>> THEN <<>>
    ELSE LET front == FirstReferenced(SubSeq(lines, 1, Len(lines) - 1))
             last  == lines[Len(lines)]
         IN  IF /\ ReferencesPackage(last)
                /\ \A i \in DOMAIN front : front[i] # ReferencedPackage(last)
             THEN Append(front, ReferencedPackage(last))
             ELSE front

\* C18: the result list holds the packages in the order in which the events
\* first referenced them, each once, and in every package no test stands
\* before a test of a smaller name.
C18_ResultOrder ==
    Returned =>
        /\ [k \in DOMAIN finalResults |-> finalResults[k].PackageName]
                = FirstReferenced(input)
        /\ \A k \in DOMAIN finalResults :
                \A i, j \in DOMAIN finalResults[k].Tests :
                    i < j => ~StringLess(finalResults[k].Tests[j].Name,
                                         finalResults[k].Tests[i].Name)

\* two packages were referenced, a/b before a, and the tests c and b/c of
\* package a were run in that order and are in the list in the other
C18_Witness ==
    /\ Returned
    /\ input = <<JSONLine("cont", PkgAB, TestC, 0, <<>>),
                 JSONLine("run", PkgA, TestC, 0, <<>>),
                 JSONLine("run", PkgA, TestBC, 0, <<>>)>>
    /\ Len(finalResults) = 2
    /\ finalResults[1].PackageName = PkgAB
    /\ Len(finalResults[2].Tests) = 2
    /\ finalResults[2].Tests[1].Name = TestBC

(***************************************************************************)
(* Properties of Parse: the placeholder of a package that failed to build. *)
(***************************************************************************)
\* the package has no test, completed or in flight, and its summary is not
\* empty, holds a line that looks like a build failure and no line with a
\* no-test-files marker
BuildFailureCase(s, name) ==
    /\ name \in DOMAIN s.packageResults
    /\ s.packageResults[name].Tests = <<>>
    /\ \A key \in DOMAIN s.currentTestResults :
            s.currentTestResults[key].PackageName # name
    /\ \E i \in DOMAIN s.packageResults[name].SummaryOutput :
            IsBuildFailedLine(s.packageResults[name].SummaryOutput[i])
    /\ \A i \in DOMAIN s.packageResults[name].SummaryOutput :
            ~IsNoTestFilesLine(s.packageResults[name].SummaryOutput[i])

\* C20: a step of Parse that takes the fail event of a package in the
\* build-failure case leaves the package with one test, of status FAIL, whose
\* output is the summary the package had, line by line, and with an empty
\* summary.
C20_BuildFailurePlaceholder ==
    [][(/\ parsePc = "scan"
        /\ Len(input') = Len(input) + 1
        /\ IsPackageEvent(input'[Len(input')], {"fail"})
        /\ BuildFailureCase(parse, input'[Len(input')].event.Package)) =>
            LET name == input'[Len(input')].event.Package
                pre  == parse.packageResults[name]
                post == parse'.packageResults[name]
            IN  /\ Len(post.Tests) = 1
                /\ post.Tests[1].PackageName = name
                /\ post.Tests[1].Status = StatusFail
                /\ post.Tests[1].Output = pre.SummaryOutput
                /\ post.SummaryOutput = <<>>]_vars

\* package a wrote "# a" and a line that does not decode said its build
\* failed, then a failed: the placeholder holds both lines
C20_Witness ==
    /\ input = <<JSONLine("output", PkgA, <<>>, 0, OutBuildFailed),
                 TextLine(<<"FAIL\t", "a", " ", "[build failed]">>),
                 JSONLine("fail", PkgA, <<>>, 1, <<>>)>>
    /\ Len(parse.packageResults[PkgA].Tests) = 1
    /\ parse.packageResults[PkgA].Tests[1].Status = StatusFail
    /\ Len(parse.packageResults[PkgA].Tests[1].Output) = 2
    /\ parse.packageResults[PkgA].Tests[1].Output[1] = <<"# ", "a">>
    /\ parse.packageResults[PkgA].SummaryOutput = <<>>

(***************************************************************************)
(* Properties of Parse on the streams of tests that run to their end.      *)
(***************************************************************************)
\* the action of the terminal event of a test, or of a package for an empty
\* test name
TerminalAction(lines, t) ==
    lines[CHOOSE i \in DOMAIN lines :
            IsFor(lines[i], t) /\ lines[i].event.Action \in Terminal].event.Action

\* the output lines of a test, in the order of their events
OutputsOf(lines, t) ==
    LET IsOutput(line) == IsFor(line, t) /\ line.event.Action = "output"
        events == SelectSeq(lines, IsOutput)
    IN  [i \in DOMAIN events |-> TrimRightNewline(events[i].event.Output)]

\* the places of the result list that hold a test of the name in a package
\* of the name
ResultTests(results, t) ==
    {<<k, j>> \in (DOMAIN results) \X (1..MaxWfLines) :
        /\ j \in DOMAIN results[k].Tests
        /\ results[k].PackageName = t[1]
        /\ results[k].Tests[j].Name = t[2]}

\* C19: when Parse has returned from such a stream, every test of the stream
\* is in the list once, under its package, with the status of its terminal
\* event and its output lines in the order they came, and every package has
\* the status of its own terminal event.
C19_WellFormedStream ==
    Returned =>
        \A t \in WfTests :
            Ran(input, t) =>
                /\ Cardinality(ResultTests(finalResults, t)) = 1
                /\ \A p \in ResultTests(finalResults, t) :
                    /\ finalResults[p[1]].Tests[p[2]].Status
                            = ToUpper(TerminalAction(input, t))
                    /\ finalResults[p[1]].Tests[p[2]].Output = OutputsOf(input, t)
                /\ Cardinality(ResultPackages(finalResults, t[1])) = 1
                /\ \A k \in ResultPackages(finalResults, t[1]) :
                    finalResults[k].Status
                        = ToUpper(TerminalAction(input, <<t[1], <<>>>>))

(***************************************************************************)
(* Properties of Parse: the placeholder of a package without test files.   *)
(***************************************************************************)
\* the package has no test, completed or in flight, and its summary holds a
\* line with a no-test-files marker
NoTestFilesCase(s, name) ==
    /\ name \in DOMAIN s.packageResults
    /\ s.packageResults[name].Tests = <<>>
    /\ \A key \in DOMAIN s.currentTestResults :
            s.currentTestResults[key].PackageName # name
    /\ \E i \in DOMAIN s.packageResults[name].SummaryOutput :
            IsNoTestFilesLine(s.packageResults[name].SummaryOutput[i])

\* C21: a step of Parse that takes a terminal event of a package in the
\* no-test-files case leaves the package with one test, of status SKIP, whose
\* output is the summary the package had, line by line, with an empty summary
\* and with the status of the event; so it is whether or not the summary
\* also holds a line that looks like a build failure.
C21_NoTestFilesPlaceholder ==
    [][(/\ parsePc = "scan"
        /\ Len(input') = Len(input) + 1
        /\ IsPackageEvent(input'[Len(input')], Terminal)
        /\ NoTestFilesCase(parse, input'[Len(input')].event.Package)) =>
            LET event == input'[Len(input')].event
                pre   == parse.packageResults[event.Package]
                post  == parse'.packageResults[event.Package]
            IN  /\ Len(post.Tests) = 1
                /\ post.Tests[1].PackageName = event.Package
                /\ post.Tests[1].Status = StatusSkip
                /\ post.Tests[1].Output = pre.SummaryOutput
                /\ post.SummaryOutput = <<>>
                /\ post.Status = ToUpper(event.Action)]_vars

\* package a wrote "# a" and then a no-test-files line, then failed: the
\* placeholder is a skipped test with both lines and the package has FAIL
C21_Witness ==
    /\ input = <<JSONLine("output", PkgA, <<>>, 0, OutBuildFailed),
                 JSONLine("output", PkgA, <<>>, 0, OutNoTestFiles),
                 JSONLine("fail", PkgA, <<>>, 1, <<>>)>>
    /\ Len(parse.packageResults[PkgA].Tests) = 1
    /\ parse.packageResults[PkgA].Tests[1].Status = StatusSkip
    /\ Len(parse.packageResults[PkgA].Tests[1].Output) = 2
    /\ parse.packageResults[PkgA].SummaryOutput = <<>>
    /\ parse.packageResults[PkgA].Status = StatusFail

(***************************************************************************)
(* Properties of a run whose subprocess could not be set up.               *)
(***************************************************************************)
\* the worker has returned and no subprocess was started, with a
\* configuration that names a command: a pipe or cmd.Start failed
SetupFailed(run) ==
    /\ run.wpc = "done"
    /\ run.proc = "none"
    /\ ConfigError(run.config) = NilErr

\* the list shows a failure: it holds a package of status FAIL
ShowsFailure(results) ==
    \E k \in DOMAIN results : results[k].Status = StatusFail

Terminated(run) == run.wpc = "done" /\ HasComplete(run.sent)

\* C23: the worker of every run comes to send its completion message and to
\* return, a scan error of the stdout reader before the end of the output
\* notwithstanding.
C23_WorkerTerminates ==
    <>(\A r \in DOMAIN runs : Terminated(runs[r]))

(***************************************************************************)
(* Properties of Parse: the sweeps of the tests in flight.                 *)
(***************************************************************************)
\* the places of a test list that hold the record
PlacesOf(tests, record) == {j \in DOMAIN tests : tests[j] = record}

\* C24: when Parse has returned, every record that was in flight and Running
\* at the end of the stream is once among the tests of its package, with
\* status FAIL and with its output followed by the line that says the test
\* did not complete, and that package has status FAIL.
C24_EndOfStreamSweep ==
    Returned =>
        \A key \in DOMAIN parse.currentTestResults :
            LET tr    == parse.currentTestResults[key]
                swept == [tr EXCEPT !.Status = StatusFail,
                                    !.Output = Append(tr.Output, DidNotComplete)]
            IN  tr.Status = StatusRunning =>
                    /\ Cardinality(ResultPackages(finalResults, tr.PackageName)) = 1
                    /\ \A k \in ResultPackages(finalResults, tr.PackageName) :
                        /\ Cardinality(PlacesOf(finalResults[k].Tests, swept)) = 1
                        /\ finalResults[k].Status = StatusFail

\* package a passed, then its test c ran and wrote a line, and the stream
\* ended: c has FAIL with the line and the diagnostic, a has FAIL
C24_Witness ==
    /\ Returned
    /\ input = <<JSONLine("pass", PkgA, <<>>, 1, <<>>),
                 JSONLine("run", PkgA, TestC, 0, <<>>),
                 JSONLine("output", PkgA, TestC, 0, OutOk)>>
    /\ parse.packageResults[PkgA].Status = StatusPass
    /\ finalResults[1].Status = StatusFail
    /\ Len(finalResults[1].Tests) = 1
    /\ finalResults[1].Tests[1].Status = StatusFail
    /\ finalResults[1].Tests[1].Output = <<<<"ok">>, DidNotComplete>>

\* the keys of the records in flight that belong to the package
InFlightOf(s, name) ==
    {key \in DOMAIN s.currentTestResults :
        s.currentTestResults[key].PackageName = name}

\* the record as the sweep of a package's terminal event leaves it
SweptByPackage(tr) ==
    [tr EXCEPT !.Status = StatusFail, !.Output = Append(tr.Output, DidNotReport)]

\* C25: a step of Parse that takes a terminal event of package P leaves no
\* record of P in flight; every record of P that was in flight is put once
\* among the tests of P, after the tests P had, with status FAIL and the
\* line that says it did not report as the last of its output, and nothing
\* else is put there with them; the records in flight of the other packages
\* are as they were.
C25_PackageTerminalSweep ==
    [][(/\ parsePc = "scan"
        /\ Len(input') = Len(input) + 1
        /\ IsPackageEvent(input'[Len(input')], Terminal)) =>
            LET name == input'[Len(input')].event.Package
                gone == InFlightOf(parse, name)
                pre  == IF name \in DOMAIN parse.packageResults
                        THEN parse.packageResults[name].Tests ELSE <<>>
                post == parse'.packageResults[name].Tests
            IN  /\ InFlightOf(parse', name) = {}
                /\ gone # {} =>
                    /\ Len(post) = Len(pre) + Cardinality(gone)
                    /\ SubSeq(post, 1, Len(pre)) = pre
                    /\ \A key \in gone :
                        Cardinality(PlacesOf(post,
                            SweptByPackage(parse.currentTestResults[key]))
                                \ DOMAIN pre) = 1
                /\ DOMAIN parse'.currentTestResults
                        = (DOMAIN parse.currentTestResults) \ gone
                /\ \A key \in DOMAIN parse'.currentTestResults :
                    parse'.currentTestResults[key] = parse.currentTestResults[key]]_vars

\* tests of a/b and of a were in flight when a passed: the test of a is
\* swept, the test of a/b is in flight as before
C25_Witness ==
    /\ input = <<JSONLine("run", PkgAB, TestC, 0, <<>>),
                 JSONLine("run", PkgA, TestC, 0, <<>>),
                 JSONLine("pass", PkgA, <<>>, 1, <<>>)>>
    /\ Cardinality(DOMAIN parse.currentTestResults) = 1
    /\ InFlightOf(parse, PkgAB) # {}
    /\ Len(parse.packageResults[PkgA].Tests) = 1
    /\ parse.packageResults[PkgA].Tests[1].Output = <<DidNotReport>>

\* C26: a step of Parse that takes a terminal event of a package with a
\* record in flight leaves the package with status FAIL, whatever the
\* action of the event.
C26_SweepFailsPackage ==
    [][(/\ parsePc = "scan"
        /\ Len(input') = Len(input) + 1
        /\ IsPackageEvent(input'[Len(input')], Terminal)
        /\ InFlightOf(parse, input'[Len(input')].event.Package) # {}) =>
            parse'.packageResults[input'[Len(input')].event.Package].Status
                = StatusFail]_vars

(***************************************************************************)
(* Properties of Parse: where the output of a test goes.                   *)
(***************************************************************************)
\* the keys of the records in flight for the test of the package
InFlightFor(s, package, test) ==
    {key \in DOMAIN s.currentTestResults :
        /\ s.currentTestResults[key].PackageName = package
        /\ s.currentTestResults[key].Name = test}

\* the packages before the event, the package of the event made if it was
\* not there
WithPackage(s, package) ==
    IF package \in DOMAIN s.packageResults THEN s.packageResults
    ELSE (package :> PackageResult(package, StatusUnknown, <<>>, <<>>, 0))
            @@ s.packageResults

\* the place of the record completed last among those of the name, 0 if none
LastNamed(tests, name) ==
    IF \E j \in DOMAIN tests : tests[j].Name = name
    THEN CHOOSE j \in DOMAIN tests :
            /\ tests[j].Name = name
            /\ \A k \in DOMAIN tests : tests[k].Name = name => k <= j
    ELSE 0

\* C27: a step of Parse that takes an output event of test T of package P
\* appends the line to the record of (P, T) in flight if there is one, else
\* to the record of P completed last among those named T if there is one,
\* else, tagged with T, to the summary of P; nothing else changes.
C27_OutputRouting ==
    [][(/\ parsePc = "scan"
        /\ Len(input') = Len(input) + 1
        /\ IsTestEvent(input'[Len(input')], {"output"})) =>
            LET event    == input'[Len(input')].event
                P        == event.Package
                T        == event.Test
                line     == TrimRightNewline(event.Output)
                packages == WithPackage(parse, P)
                last     == LastNamed(packages[P].Tests, T)
            IN  IF InFlightFor(parse, P, T) # {}
                THEN /\ parse'.packageResults = packages
                     /\ \E key \in InFlightFor(parse, P, T) :
                            parse'.currentTestResults =
                                [parse.currentTestResults EXCEPT
                                    ![key].Output = Append(@, line)]
                ELSE /\ parse'.currentTestResults = parse.currentTestResults
                     /\ parse'.packageResults =
                            IF last # 0
                            THEN [packages EXCEPT ![P].Tests[last].Output =
                                        Append(@, line)]
                            ELSE [packages EXCEPT ![P].SummaryOutput =
                                        Append(@, <<"[">> \o T \o <<"]", " ">> \o line)]]_vars

(***************************************************************************)
(* Properties of Parse: a result for a test that is not in flight.         *)
(***************************************************************************)
\* the tag OnOutput puts before a line it files in the summary
SummaryTag(test) == <<"[">> \o test \o <<"]", " ">>

\* the lines of the summary tagged with the test, the tag taken off
MovedLines(summary, test) ==
    LET IsTagged(line) == HasPrefix(line, SummaryTag(test))
        tagged == SelectSeq(summary, IsTagged)
    IN  [i \in DOMAIN tagged |-> TrimPrefix(tagged[i], SummaryTag(test))]

\* the other lines of the summary
KeptLines(summary, test) ==
    LET IsOther(line) == ~HasPrefix(line, SummaryTag(test))
    IN  SelectSeq(summary, IsOther)

\* C28: a step of Parse that takes a pass, fail or skip event of test T of
\* package P with no record of (P, T) in flight appends one record to the
\* tests of P, leaving the records before it as they were: the record of
\* (P, T) with the status and the duration of the event, whose output is the
\* lines of P's summary tagged with T, in order and without the tag; the
\* other lines stay in the summary in their order.
C28_ResultWithoutRun ==
    [][(/\ parsePc = "scan"
        /\ Len(input') = Len(input) + 1
        /\ IsTestEvent(input'[Len(input')], Terminal)
        /\ InFlightFor(parse, input'[Len(input')].event.Package,
                       input'[Len(input')].event.Test) = {}) =>
            LET event == input'[Len(input')].event
                pre   == WithPackage(parse, event.Package)[event.Package]
                post  == parse'.packageResults[event.Package]
            IN  /\ post.Tests = Append(pre.Tests,
                        TestResult(event.Package, event.Test, ToUpper(event.Action),
                                   MovedLines(pre.SummaryOutput, event.Test),
                                   event.Elapsed * Second))
                /\ post.SummaryOutput = KeptLines(pre.SummaryOutput, event.Test)]_vars

(***************************************************************************)
(* Properties of Parse: a test that is run again.                          *)
(***************************************************************************)
\* C29: no two records in flight are of the same test of the same package;
\* a step of Parse that takes a run event of a test that is in flight puts a
\* new Running record without output in the place of the record in flight
\* and changes nothing else, so that the old record is in no test list and
\* under no key from then on.
C29_TestReentry ==
    /\ [](\A k1, k2 \in DOMAIN parse.currentTestResults :
            (/\ parse.currentTestResults[k1].PackageName
                    = parse.currentTestResults[k2].PackageName
             /\ parse.currentTestResults[k1].Name = parse.currentTestResults[k2].Name)
                => k1 = k2)
    /\ [][(/\ parsePc = "scan"
           /\ Len(input') = Len(input) + 1
           /\ IsTestEvent(input'[Len(input')], {"run"})
           /\ InFlightFor(parse, input'[Len(input')].event.Package,
                          input'[Len(input')].event.Test) # {}) =>
                LET event == input'[Len(input')].event
                IN  /\ parse'.packageResults = parse.packageResults
                    /\ \E key \in InFlightFor(parse, event.Package, event.Test) :
                        parse'.currentTestResults =
                            [parse.currentTestResults EXCEPT ![key] =
                                TestResult(event.Package, event.Test,
                                           StatusRunning, <<>>, 0)]]_vars

\* test c of package a ran, wrote a line and ran again: the record in flight
\* has no output
C29_Witness ==
    /\ input = <<JSONLine("run", PkgA, TestC, 0, <<>>),
                 JSONLine("output", PkgA, TestC, 0, OutOk),
                 JSONLine("run", PkgA, TestC, 0, <<>>)>>
    /\ Cardinality(InFlightFor(parse, PkgA, TestC)) = 1
    /\ \A key \in InFlightFor(parse, PkgA, TestC) :
            parse.currentTestResults[key].Output = <<>>
    /\ parse.packageResults[PkgA].Tests = <<>>

(***************************************************************************)
(* Properties of Parse: an event of an action without a case.              *)
(***************************************************************************)
\* C30: a step of Parse that takes an event whose action is none of run,
\* output, pass, fail and skip leaves the records in flight and every
\* package there is as they are; if the event names a package that has no
\* record, the step makes that record, of status UNKNOWN and without
\* summary, tests or duration, and puts the name last in the order of the
\* packages; it does nothing else to the packages or their order.
C30_UnhandledAction ==
    [][(/\ parsePc = "scan"
        /\ Len(input') = Len(input) + 1
        /\ input'[Len(input')].kind = "json"
        /\ input'[Len(input')].event.Action
                \notin {"run", "output", "pass", "fail", "skip"}) =>
            LET event == input'[Len(input')].event
                known == event.Package = <<>>
                            \/ event.Package \in DOMAIN parse.packageResults
            IN  /\ parse'.currentTestResults = parse.currentTestResults
                /\ parse'.packageResults =
                        IF known THEN parse.packageResults
                        ELSE WithPackage(parse, event.Package)
                /\ parse'.orderedPackageNames =
                        IF known THEN parse.orderedPackageNames
                        ELSE Append(parse.orderedPackageNames, event.Package)]_vars

\* test c of package a is in flight and a cont event named package a/b
C30_Witness ==
    /\ input = <<JSONLine("run", PkgA, TestC, 0, <<>>),
                 JSONLine("cont", PkgAB, TestC, 0, <<>>)>>
    /\ parse.orderedPackageNames = <<PkgA, PkgAB>>
    /\ parse.packageResults[PkgAB]
            = PackageResult(PkgAB, StatusUnknown, <<>>, <<>>, 0)
    /\ DOMAIN parse.currentTestResults = {PkgA \o <<"/">> \o TestC}

(***************************************************************************)
(* Properties of Parse: the status of a package over the stream.           *)
(***************************************************************************)
TerminalStatus == {StatusPass, StatusFail, StatusSkip}

\* C31: a package whose status is PASS, FAIL or SKIP has one of these
\* statuses after every later step of Parse, the step of a run event of the
\* package included.
C31_PackageForward ==
    [][\A name \in DOMAIN parse.packageResults :
            parse.packageResults[name].Status \in TerminalStatus =>
                parse'.packageResults[name].Status \in TerminalStatus]_vars

(***************************************************************************)
(* Properties of Parse: the record of a package is made once.              *)
(***************************************************************************)
IsOrphanedOutput(line) ==
    /\ IsEvent(line)
    /\ line.event.Action = "output"
    /\ line.event.Package = <<>>
    /\ line.event.Test = <<>>

\* C32: a step of Parse that takes an output event without package and
\* without test, when the package of such output has a record, adds the line
\* to the summary of that record and keeps the lines and tests it had.
C32_RecordKept ==
    [][(/\ parsePc = "scan"
        /\ Len(input') = Len(input) + 1
        /\ IsOrphanedOutput(input'[Len(input')])
        /\ orphanedOutputPackage \in DOMAIN parse.packageResults) =>
            LET pre  == parse.packageResults[orphanedOutputPackage]
                post == parse'.packageResults[orphanedOutputPackage]
            IN  /\ post.SummaryOutput =
                    Append(pre.SummaryOutput,
                           TrimRightNewline(input'[Len(input')].event.Output))
                /\ post.Tests = pre.Tests]_vars

(***************************************************************************)
(* Properties of Parse: when no placeholder is made.                       *)
(***************************************************************************)
\* C33: a step of Parse that takes a terminal event of a package that has a
\* test, or has a record in flight for the step to sweep, or has no summary
\* line, adds to the tests of the package the swept records and nothing
\* else, and leaves the summary of the package as it was.
C33_NoPlaceholder ==
    [][(/\ parsePc = "scan"
        /\ Len(input') = Len(input) + 1
        /\ IsPackageEvent(input'[Len(input')], Terminal)) =>
            LET name == input'[Len(input')].event.Package
                gone == InFlightOf(parse, name)
                pre  == IF name \in DOMAIN parse.packageResults
                        THEN parse.packageResults[name]
                        ELSE PackageResult(name, StatusUnknown, <<>>, <<>>, 0)
                post == parse'.packageResults[name]
            IN  (\/ Len(pre.Tests) > 0
                 \/ gone # {}
                 \/ pre.SummaryOutput = <<>>) =>
                    /\ Len(post.Tests) = Len(pre.Tests) + Cardinality(gone)
                    /\ SubSeq(post.Tests, 1, Len(pre.Tests)) = pre.Tests
                    /\ \A j \in (DOMAIN post.Tests) \ (DOMAIN pre.Tests) :
                        \E key \in gone :
                            post.Tests[j] = SweptByPackage(parse.currentTestResults[key])
                    /\ post.SummaryOutput = pre.SummaryOutput]_vars

\* package a said it has no test files, test c of it was in flight when it
\* passed: the test is swept, no placeholder is made, the summary stays
C33_Witness ==
    /\ input = <<JSONLine("output", PkgA, <<>>, 0, OutNoTestFiles),
                 JSONLine("run", PkgA, TestC, 0, <<>>),
                 JSONLine("pass", PkgA, <<>>, 1, <<>>)>>
    /\ Len(parse.packageResults[PkgA].Tests) = 1
    /\ parse.packageResults[PkgA].Tests[1].Name = TestC
    /\ parse.packageResults[PkgA].SummaryOutput = <<<<"?", "[no test files]">>>>

(***************************************************************************)
(* Properties of a run: what is read from stderr.                          *)
(***************************************************************************)
\* C34: the lines the worker has sent are, in order, lines the subprocess
\* wrote to stdout, and no line of the buffer of the model and no line
\* message of a run carries a line the subprocess wrote to stderr, whatever
\* the reader of stderr has collected.
C34_StderrOutOfBand ==
    \A r \in DOMAIN runs :
        /\ IsPrefix(LinesSent(runs[r]), runs[r].written)
        /\ \A i \in DOMAIN runs[r].msgChan :
            runs[r].msgChan[i].type = "TestOutputLineMsg" =>
                runs[r].msgChan[i].Line # TextLine(StderrLine)
        /\ \A i \in DOMAIN model.accumulatedJSONOutput :
            model.accumulatedJSONOutput[i] # TextLine(StderrLine)

\* the reader of stderr has collected a line, and the model has taken a line
\* of stdout and the completion message of the run
C34_Witness ==
    \E r \in DOMAIN runs :
        /\ runs[r].stderrOutput = <<StderrLine>>
        /\ CompleteReceived(runs[r])
        /\ Len(model.accumulatedJSONOutput) > 0
        /\ model.accumulatedJSONOutput = LinesSent(runs[r])

(***************************************************************************)
(* Properties of the tui: triggers that start nothing.                     *)
(***************************************************************************)
\* Update has taken the message from those it was to be given
Taken(msg) ==
    /\ msg \in BagToSet(mailbox)
    /\ CopiesIn(msg, mailbox') < CopiesIn(msg, mailbox)

\* C35: a step of Update that takes a trigger while the model is running
\* tests, or a trigger of a package or of a selected test while no item is
\* selected, changes nothing but the messages that wait: the trigger is gone
\* and no message of a new run has come, no run is added, and the state, the
\* current configuration, the buffer and the stored channel are as they were.
C35_TriggerIgnored ==
    [][\A msg \in Triggers :
        (/\ Taken(msg)
         /\ \/ model.state = "stateRunningTests"
            \/ msg # triggerRunAllTestsMsg /\ model.items = <<>>) =>
                /\ mailbox' = Take(mailbox, msg)
                /\ runs' = runs
                /\ model' = model]_vars

\* two triggers were taken with an item selected, and one run was started:
\* the model is running tests, its buffer filled by the one run
C35_Witness ==
    /\ model.items = <<TestItem>>
    /\ Len(runs) = 1
    /\ \A msg \in Triggers : msg \notin BagToSet(mailbox)
    /\ model.state = "stateRunningTests"
    /\ model.accumulatedJSONOutput = <<SessionLine>>
    /\ ~model.quit

(***************************************************************************)
(* Properties of the tui: a session of several runs.                       *)
(***************************************************************************)
\* the worker of the run has not sent its completion message
WorkerAlive(run) == ~HasComplete(run.sent)

\* C36: at every moment of a session one worker at most has not yet sent
\* its completion message.
C36_OneWorker ==
    Cardinality({r \in DOMAIN runs : WorkerAlive(runs[r])}) <= 1

\* C37: the buffer of the model holds lines of the run accepted last and of
\* no other, and the list of a displayReportMsg is what the lines and the
\* completion message of one run give.
C37_NoStateAcrossRuns ==
    /\ runs # <<>> => IsPrefix(model.accumulatedJSONOutput, LinesSent(runs[Len(runs)]))
    /\ \A msg \in Pending("displayReportMsg") :
        \E r \in DOMAIN runs :
            /\ HasComplete(runs[r].sent)
            /\ msg.parsedResults
                \in ParsedData(LinesSent(runs[r]), RunError(runs[r]))

\* C38: a model that is running tests comes to show the report, unless the
\* user ends the program; and the model leaves the state of running tests
\* only by a step of Update that takes a displayReportMsg and shows the
\* report, the list of that message being what the lines and the completion
\* message of the run accepted last give.
C38_RunReported ==
    /\ (model.state = "stateRunningTests")
            ~> (model.quit \/ model.state = "stateReportView")
    /\ [][(model.state = "stateRunningTests" /\ model'.state # "stateRunningTests") =>
            /\ model'.state = "stateReportView"
            /\ \E msg \in Pending("displayReportMsg") :
                /\ mailbox' = Take(mailbox, msg)
                /\ model'.report = msg.parsedResults
                /\ HasComplete(runs[Len(runs)].sent)
                /\ msg.parsedResults \in ParsedData(LinesSent(runs[Len(runs)]),
                                                    RunError(runs[Len(runs)]))]_vars

(***************************************************************************)
(* Properties of Parse: the records in flight of other tests.              *)
(***************************************************************************)
\* the keys of the records in flight that are not of the test of the package
InFlightOfOthers(s, package, test) ==
    {key \in DOMAIN s.currentTestResults :
        ~(/\ s.currentTestResults[key].PackageName = package
          /\ s.currentTestResults[key].Name = test)}

\* C39: a step of Parse that takes a run, output or terminal event of a
\* test of a package leaves the records in flight of every other test, and
\* of the tests of every other package, as they are: none is made, none is
\* changed and none is removed.
C39_PerPairTracking ==
    [][(/\ parsePc = "scan"
        /\ Len(input') = Len(input) + 1
        /\ IsTestEvent(input'[Len(input')], {"run", "output"} \cup Terminal)) =>
            LET event == input'[Len(input')].event
                kept  == InFlightOfOthers(parse, event.Package, event.Test)
            IN  /\ InFlightOfOthers(parse', event.Package, event.Test) = kept
                /\ \A key \in kept :
                    parse'.currentTestResults[key] = parse.currentTestResults[key]]_vars

(***************************************************************************)
(* Properties of ReportModel.SetContent.                                   *)
(***************************************************************************)
\* the test records of a result list
ReportedTests(results) ==
    UNION {{<<i, j>> : j \in DOMAIN results[i].Tests} : i \in DOMAIN results}

\* C40: for the list the report view has been given, SetContent leaves
\* totalTests the number of test records of all packages, which is the sum
\* of the three counters, tests that neither passed nor failed counted as
\* skipped; the overall status FAIL exactly when a test or a package has
\* status FAIL, else SKIP when the list is empty or a package has status
\* SKIP, else PASS; and the list as it was.
C40_SetContent ==
    model.state = "stateReportView" =>
        LET results == model.report
            m       == SetContent(results, model.currentTestRunConfig)
            tests   == ReportedTests(results)
            status(t) == results[t[1]].Tests[t[2]].Status
            failed  == \/ \E t \in tests : status(t) = StatusFail
                       \/ \E i \in DOMAIN results : results[i].Status = StatusFail
            skipped == \/ results = <<>>
                       \/ \E i \in DOMAIN results : results[i].Status = StatusSkip
        IN  /\ m.totalTests = Cardinality(tests)
            /\ m.totalTests = m.passedCount + m.failedCount + m.skippedCount
            /\ m.passedCount = Cardinality({t \in tests : status(t) = StatusPass})
            /\ m.failedCount = Cardinality({t \in tests : status(t) = StatusFail})
            /\ m.overallStatus = IF failed THEN StatusFail
                                 ELSE IF skipped THEN StatusSkip
                                 ELSE StatusPass
            /\ m.results = results

\* the report of a failed package followed by a skipped one is shown: the
\* overall status is FAIL
C40_Witness ==
    /\ model.state = "stateReportView"
    /\ Len(model.report) = 2
    /\ model.report[1].Status = StatusFail
    /\ model.report[2].Status = StatusSkip
    /\ Len(model.report[1].Tests) = 2
    /\ model.report[1].Tests[1].Status = StatusRunning
    /\ SetContent(model.report, model.currentTestRunConfig).overallStatus = StatusFail
    /\ SetContent(model.report, model.currentTestRunConfig).skippedCount = 1
====
